---- MODULE Spec2Model ----
(***************************************************************************)
(* Digital-twin state store of dt/state.py (DTState): node and link maps   *)
(* with their dyn slots, reservations, observations, override merges and   *)
(* snapshots.                                                              *)
(*                                                                         *)
(* Numbers.  The code keeps capacities and amounts as floats.  The model   *)
(* keeps them as integers (whole cores / GB); thermal_derate is kept in    *)
(* percent (50 stands for 0.5).  On integers the comparison                *)
(* "free + 1e-9 < need" of the code is "free < need".                      *)
(*                                                                         *)
(* Strings.  Node names are strings.  A link key is a sequence of tokens,  *)
(* each a name atom or the separator "|", so that joining and splitting    *)
(* are computed and not assumed to be inverse.                             *)
(***************************************************************************)
EXTENDS Integers, Sequences, FiniteSets, TLC

VARIABLES
    nodes_by_name,   \* DTState.nodes_by_name: name -> [caps, dyn]
    links_by_key,    \* DTState.links_by_key: key -> [a, b, base, dyn]
    _overrides,      \* DTState._overrides: the raw override document last read
    _res_seq,        \* DTState._res_seq: reservation counter
    snap,            \* the structure a caller holds after snapshot()
    lock,            \* DTState._lock: owner thread, or NoThread
    pc,              \* per caller thread: position inside reserve()/release()
    call,            \* per caller thread: the call in progress and its locals
    done,            \* per caller thread: calls completed, and whether one overlapped
    lin,             \* history: the store a sequential run of the completed calls gives
    plan,            \* the result of the last planner call
    overrides_json,  \* sim/overrides.json as OverridesStore of sim/chaos.py writes it
    chaos,           \* the chaos run: its input, compiled schedule and position
    loops,           \* the scheduler loop and the watcher loop: positions and signals
    written,         \* history: per dyn field, the value of the most recent write
    planning,        \* a planner call in progress: its locals and its position
    issued,          \* history: reservation ids returned so far, in order
    last             \* history: the last completed operation and its result

vars == <<nodes_by_name, links_by_key, _overrides, _res_seq, snap,
          lock, pc, call, done, lin, plan, overrides_json, chaos, loops,
          written, planning, issued, last>>

store_vars == <<nodes_by_name, links_by_key, _overrides, _res_seq>>

thread_vars == <<lock, pc, call, done, lin>>

\* What the clients of the store hold: the planner's callers and the chaos
\* engine.
aux_vars == <<plan, overrides_json, chaos, loops, written, planning>>

-----------------------------------------------------------------------------
(* Bounds of the model *)

\* Reserve is not called any more once the counter has passed MaxSeq.
MaxSeq == 2

\* Largest cpu_cores amount a request asks for.
MaxAmount == 2

-----------------------------------------------------------------------------
(* Helpers *)

\* Python's None, for optional values and for "no reservation id".
None == <<>>

Max(a, b) == IF a >= b THEN a ELSE b

Min(a, b) == IF a <= b THEN a ELSE b

clamp(x, lo, hi) == Max(lo, Min(hi, x))

\* The separator of link keys.
Sep == "|"

\* Lexicographic rank of the name atoms (Python compares strings by code
\* point: "ghost" < "n1" < "n2" < "n3" < "z1" < "z2" < "|").
AtomRank == [ghost |-> 0, n1 |-> 1, n2 |-> 2, n3 |-> 3, z1 |-> 4, z2 |-> 5] @@ ("|" :> 9)

\* A string over atoms: a name is <<"n1">>, a key is <<"n1", "|", "n2">>.
Str(name) == <<name>>

RECURSIVE StrLess(_, _)
StrLess(s, t) ==
    IF t = <<>> THEN FALSE
    ELSE IF s = <<>> THEN TRUE
    ELSE IF AtomRank[Head(s)] # AtomRank[Head(t)]
         THEN AtomRank[Head(s)] < AtomRank[Head(t)]
    ELSE StrLess(Tail(s), Tail(t))

\* "|".join(sorted([a, b]))
link_key(a, b) ==
    IF StrLess(b, a) THEN b \o <<Sep>> \o a ELSE a \o <<Sep>> \o b

\* Index of the first separator of k, 0 when there is none.
RECURSIVE FirstSep(_, _)
FirstSep(k, i) ==
    IF i > Len(k) THEN 0
    ELSE IF k[i] = Sep THEN i
    ELSE FirstSep(k, i + 1)

\* k.split("|", 1): a sequence of one or two strings.
split1(k) ==
    LET i == FirstSep(k, 1)
    IN  IF i = 0 THEN <<k>>
        ELSE <<SubSeq(k, 1, i - 1), SubSeq(k, i + 1, Len(k))>>

\* f"{seq:07d}": the decimal digits of n, zero-padded to at least w digits.
RECURSIVE Digits(_, _)
Digits(n, w) ==
    IF n < 10 /\ w <= 1 THEN <<n>>
    ELSE Digits(n \div 10, w - 1) \o <<n % 10>>

\* f"res-{seq:07d}"
FormatRid(seq) == <<"res-">> \o Digits(seq, 7)

\* The number a reservation id carries after its "res-" prefix.
RECURSIVE DigitsValue(_)
DigitsValue(ds) ==
    IF ds = <<>> THEN 0
    ELSE 10 * DigitsValue(SubSeq(ds, 1, Len(ds) - 1)) + ds[Len(ds)]

SeqNo(rid) == DigitsValue(Tail(rid))

-----------------------------------------------------------------------------
(* Data classes *)

\* NodeDyn().__dict__
NodeDyn ==
    [down |-> FALSE, thermal_derate |-> 0, power_cap_w |-> None,
     clock_skew_ms |-> None, packet_dup |-> None, packet_reorder |-> None,
     used_cpu_cores |-> 0, used_mem_gb |-> 0, used_gpu_vram_gb |-> 0,
     reservations |-> <<>>]

\* LinkDyn().__dict__
LinkDyn ==
    [down |-> FALSE, speed_gbps |-> None, rtt_ms |-> None,
     jitter_ms |-> None, loss_pct |-> None, ecn |-> None]

-----------------------------------------------------------------------------
(* Loaded configuration: ./nodes/*.yaml and sim/topology.yaml *)

\* The node descriptors on disk (cpu.cores, cpu.base_ghz, memory.ram_gb,
\* gpu.vram_gb).  Core counts are even, so a derate of 50 percent is exact.
NodeFiles ==
    [n1 |-> [cores |-> 2, base_ghz |-> 2, ram_gb |-> 2, vram_gb |-> 1,
             formats_supported |-> {"native", "wasm"}],
     n2 |-> [cores |-> 2, base_ghz |-> 1, ram_gb |-> 1, vram_gb |-> 0,
             formats_supported |-> {"native"}]]

\* The links of the topology document, as written (a, b in file order).
TopologyLinks ==
    {[a |-> Str("n2"), b |-> Str("n1"), base |-> [speed_gbps |-> 1]]}

_compute_and_cache_capacities(f) ==
    [cpu_units |-> f.cores * f.base_ghz,
     max_cpu_cores |-> f.cores,
     ram_gb |-> f.ram_gb,
     gpu_vram_gb |-> f.vram_gb]

_load_nodes_locked ==
    [n \in DOMAIN NodeFiles |->
        [name |-> n,
         caps |-> _compute_and_cache_capacities(NodeFiles[n]),
         dyn  |-> NodeDyn]]

_load_topology_locked ==
    LET keys == {link_key(ln.a, ln.b) : ln \in TopologyLinks}
        pick(k) == CHOOSE ln \in TopologyLinks : link_key(ln.a, ln.b) = k
    IN  [k \in keys |->
            [a |-> pick(k).a, b |-> pick(k).b,
             base |-> pick(k).base, dyn |-> LinkDyn]]

EmptyOverrides == [nodes |-> <<>>, links |-> <<>>]

-----------------------------------------------------------------------------
(* Effective capacities *)

_is_down(node) == node.dyn.down

_effective_caps(node) ==
    LET caps == node.caps
        dyn == node.dyn
        derate == dyn.thermal_derate
        eff_cpu == (caps.max_cpu_cores * (100 - Max(0, Min(100, derate)))) \div 100
    IN  [max_cpu_cores |-> caps.max_cpu_cores,
         max_mem_gb |-> caps.ram_gb,
         max_gpu_vram_gb |-> caps.gpu_vram_gb,
         free_cpu_cores |-> Max(0, eff_cpu - dyn.used_cpu_cores),
         free_mem_gb |-> Max(0, caps.ram_gb - dyn.used_mem_gb),
         free_gpu_vram_gb |-> Max(0, caps.gpu_vram_gb - dyn.used_gpu_vram_gb)]

-----------------------------------------------------------------------------
(* reserve(req) as a function of the store: [ret, nodes, seq] *)

\* Mutant of reserve_refuses: the amounts are compared with the declared
\* capacities and not with what is left of them.
reserve_refuses_vs_capacity(nodes, req) ==
    IF req.node = "" THEN TRUE
    ELSE IF req.node \notin DOMAIN nodes THEN TRUE
    ELSE IF _is_down(nodes[req.node]) THEN TRUE
    ELSE LET eff == _effective_caps(nodes[req.node])
         IN  \/ eff.max_cpu_cores < req.cpu_cores
             \/ eff.max_mem_gb < req.mem_gb
             \/ eff.max_gpu_vram_gb < req.gpu_vram_gb

\* Mutant of reserve_refuses: the down check is missing.
reserve_refuses_no_down_check(nodes, req) ==
    IF req.node = "" THEN TRUE
    ELSE IF req.node \notin DOMAIN nodes THEN TRUE
    ELSE LET eff == _effective_caps(nodes[req.node])
         IN  \/ eff.free_cpu_cores < req.cpu_cores
             \/ eff.free_mem_gb < req.mem_gb
             \/ eff.free_gpu_vram_gb < req.gpu_vram_gb

\* The checks of reserve(), in the code's order; TRUE when the request is
\* refused (return None before anything is written).
reserve_refuses(nodes, req) ==
    IF req.node = "" THEN TRUE
    ELSE IF req.node \notin DOMAIN nodes THEN TRUE
    ELSE IF _is_down(nodes[req.node]) THEN TRUE
    ELSE LET eff == _effective_caps(nodes[req.node])
         IN  \/ eff.free_cpu_cores < req.cpu_cores
             \/ eff.free_mem_gb < req.mem_gb
             \/ eff.free_gpu_vram_gb < req.gpu_vram_gb

\* dyn["used_*"] += need_*
add_used(dyn, req) ==
    [dyn EXCEPT
        !.used_cpu_cores = @ + req.cpu_cores,
        !.used_mem_gb = @ + req.mem_gb,
        !.used_gpu_vram_gb = @ + req.gpu_vram_gb]

\* dyn["reservations"][rid] = {cpu_cores, mem_gb, gpu_vram_gb, ts}
record_reservation(dyn, req, rid) ==
    [dyn EXCEPT
        !.reservations = @ @@ (rid :>
            [cpu_cores |-> req.cpu_cores, mem_gb |-> req.mem_gb,
             gpu_vram_gb |-> req.gpu_vram_gb])]

\* Mutant of bump_seq: the counter is not advanced.
bump_seq_lost(seq) == seq

\* self._res_seq += 1
bump_seq(seq) == seq + 1

reserve(nodes, seq, req) ==
    IF reserve_refuses(nodes, req)
    THEN [ret |-> None, nodes |-> nodes, seq |-> seq]
    ELSE LET rid == FormatRid(seq)
         IN  [ret |-> rid,
              nodes |-> [nodes EXCEPT ![req.node].dyn =
                            record_reservation(add_used(@, req), req, rid)],
              seq |-> bump_seq(seq)]

-----------------------------------------------------------------------------
(* release(node_name, reservation_id) as a function of the store *)

\* used_* after the release of a reservation res: decrement, clamped at 0.
release_decrement(dyn, res) ==
    [dyn EXCEPT
        !.used_cpu_cores = Max(0, @ - res.cpu_cores),
        !.used_mem_gb = Max(0, @ - res.mem_gb),
        !.used_gpu_vram_gb = Max(0, @ - res.gpu_vram_gb)]

\* reservations.pop(reservation_id)
map_pop(m, k) == [x \in DOMAIN m \ {k} |-> m[x]]

\* Mutant of release: an id that is not outstanding on the node is looked
\* for on the other nodes and released there.
release_on_any_node(nodes, node_name, reservation_id) ==
    LET holders == {n \in DOMAIN nodes :
                        reservation_id \in DOMAIN nodes[n].dyn.reservations}
    IN  IF holders = {}
        THEN [ret |-> FALSE, nodes |-> nodes]
        ELSE LET n == CHOOSE h \in holders : TRUE
                 dyn == nodes[n].dyn
                 res == dyn.reservations[reservation_id]
                 popped == [dyn EXCEPT !.reservations =
                                map_pop(@, reservation_id)]
             IN  [ret |-> TRUE,
                  nodes |-> [nodes EXCEPT ![n].dyn =
                                release_decrement(popped, res)]]

release(nodes, node_name, reservation_id) ==
    IF node_name \notin DOMAIN nodes
    THEN [ret |-> FALSE, nodes |-> nodes]
    ELSE LET dyn == nodes[node_name].dyn
         IN  IF reservation_id \notin DOMAIN dyn.reservations
             THEN [ret |-> FALSE, nodes |-> nodes]
             ELSE LET res == dyn.reservations[reservation_id]
                      popped == [dyn EXCEPT !.reservations =
                                    map_pop(@, reservation_id)]
                  IN  [ret |-> TRUE,
                       nodes |-> [nodes EXCEPT ![node_name].dyn =
                                    release_decrement(popped, res)]]

-----------------------------------------------------------------------------
(* apply_observation(payload) as a function of the store:                  *)
(* [outcome, nodes, links].  outcome is "ok" when the call returns and     *)
(* "error" when it raises.                                                 *)

\* p.get(k): whether the payload carries the key.
Has(p, k) == k \in DOMAIN p

\* p.get("changes") or {}
ChangesOf(p) == IF Has(p, "changes") THEN p.changes ELSE <<>>

\* for k, v in changes.items(): if k in dyn: dyn[k] = v
merge_known(dyn, changes) ==
    [k \in DOMAIN dyn |-> IF k \in DOMAIN changes THEN changes[k] ELSE dyn[k]]

\* The shell of a link created on the fly from its key.
link_shell(k) ==
    [a |-> split1(k)[1], b |-> split1(k)[2], base |-> <<>>, dyn |-> LinkDyn]

\* The "node" branch: the changes are merged into the node's dyn; control
\* then reaches the statements after the if/elif, which read the local
\* `link` that this branch never binds, so the call raises.
observe_node(nodes, links, p) ==
    IF ~Has(p, "node") \/ p.node \notin DOMAIN nodes
    THEN [outcome |-> "ok", nodes |-> nodes, links |-> links]
    ELSE [outcome |-> "error",
          nodes |-> [nodes EXCEPT ![p.node].dyn = merge_known(@, ChangesOf(p))],
          links |-> links]

\* The "link" branch followed by the merge after the if/elif.
observe_link(nodes, links, p) ==
    IF Has(p, "key") /\ p.key \in DOMAIN links
    THEN [outcome |-> "ok", nodes |-> nodes,
          links |-> [links EXCEPT ![p.key].dyn = merge_known(@, ChangesOf(p))]]
    ELSE IF ~Has(p, "key")
    THEN [outcome |-> "error", nodes |-> nodes, links |-> links]
    ELSE IF Len(split1(p.key)) = 2
    THEN [outcome |-> "ok", nodes |-> nodes,
          links |-> links @@ (p.key :>
                [link_shell(p.key) EXCEPT !.dyn = merge_known(@, ChangesOf(p))])]
    ELSE [outcome |-> "ok", nodes |-> nodes, links |-> links]

apply_observation(nodes, links, p) ==
    IF Has(p, "type") /\ p.type = "node" THEN observe_node(nodes, links, p)
    ELSE IF Has(p, "type") /\ p.type = "link" THEN observe_link(nodes, links, p)
    ELSE [outcome |-> "error", nodes |-> nodes, links |-> links]

-----------------------------------------------------------------------------
(* _apply_overrides_locked(): merge the override document into the dyn     *)
(* slots.                                                                  *)

NodeOverrideKeys ==
    {"down", "power_cap_w", "thermal_derate", "clock_skew_ms",
     "packet_dup", "packet_reorder"}

LinkOverrideKeys ==
    {"down", "speed_gbps", "rtt_ms", "jitter_ms", "loss_pct", "ecn"}

\* for k in keys: if k in changes: dyn[k] = changes[k]
merge_listed(dyn, changes, keys) ==
    LET touched == keys \cap DOMAIN changes
    IN  [k \in DOMAIN dyn \cup touched |->
            IF k \in touched THEN changes[k] ELSE dyn[k]]

\* Mutant of override_nodes: the dyn slot of a node the document mentions is
\* rebuilt from the defaults before the entry is merged.
override_nodes_rebuilt(nodes, doc) ==
    [n \in DOMAIN nodes |->
        IF n \in DOMAIN doc.nodes
        THEN [nodes[n] EXCEPT !.dyn = merge_listed(NodeDyn, doc.nodes[n], NodeOverrideKeys)]
        ELSE nodes[n]]

override_nodes(nodes, doc) ==
    [n \in DOMAIN nodes |->
        IF n \in DOMAIN doc.nodes
        THEN [nodes[n] EXCEPT !.dyn = merge_listed(@, doc.nodes[n], NodeOverrideKeys)]
        ELSE nodes[n]]

override_links(links, doc) ==
    LET created == {k \in DOMAIN doc.links \ DOMAIN links : Len(split1(k)) = 2}
        base(k) == IF k \in DOMAIN links THEN links[k] ELSE link_shell(k)
    IN  [k \in DOMAIN links \cup created |->
            IF k \in DOMAIN doc.links
            THEN [base(k) EXCEPT !.dyn = merge_listed(@, doc.links[k], LinkOverrideKeys)]
            ELSE links[k]]

\* _load_overrides_locked(apply_now=True) on a file in state `file`:
\* [kind |-> "missing"], [kind |-> "unreadable"] or [kind |-> "doc", doc |-> d]
\* with a modification time that advanced.  Result: [overrides, nodes, links].
_load_overrides_locked(ov, nodes, links, file) ==
    IF file.kind = "missing"
    THEN [overrides |-> EmptyOverrides, nodes |-> nodes, links |-> links]
    ELSE IF file.kind = "unreadable"
    THEN [overrides |-> ov, nodes |-> nodes, links |-> links]
    ELSE [overrides |-> file.doc,
          nodes |-> override_nodes(nodes, file.doc),
          links |-> override_links(links, file.doc)]

-----------------------------------------------------------------------------
(* Inputs of the operations *)

NodeNames == DOMAIN NodeFiles

\* Node arguments: the loaded nodes and an unknown name.
NodeArgs == NodeNames \cup {"ghost"}

Request(n, c, m, v) ==
    [node |-> n, cpu_cores |-> c, mem_gb |-> m, gpu_vram_gb |-> v]

\* Reservation requests.  On n1: cpu_cores ranges over a negative amount,
\* zero and the positive amounts up to MaxAmount, and mem_gb and
\* gpu_vram_gb are asked for together (0 or 1 of each).  On n2: the positive
\* cpu amounts.  One request names an unknown node, one an empty name.
Requests ==
    {Request("n1", c, m, m) : c \in (-1)..MaxAmount, m \in 0..1}
    \cup {Request("n2", c, 0, 0) : c \in 1..MaxAmount}
    \cup {Request("ghost", 1, 0, 0), Request("", 1, 0, 0)}

\* Reservation ids a caller may pass to release(): every id the counter can
\* have produced, issued or not.
RidArgs == {FormatRid(i) : i \in 1..MaxSeq}

\* The changes maps of node observations: empty, the boolean and the
\* numeric dyn fields, a key that is no dyn field, and the bookkeeping
\* fields of the dyn slot.
NodeChanges ==
    {<<>>,
     [down |-> TRUE],
     [down |-> FALSE],
     [thermal_derate |-> 50],
     [thermal_derate |-> 150],
     [bogus |-> 1],
     [used_cpu_cores |-> 0]}

\* Node observations, on a loaded node and on an unknown one.
NodePayloads ==
    {[type |-> "node", node |-> "n1", changes |-> c] : c \in NodeChanges}
    \cup {[type |-> "node", node |-> "ghost", changes |-> [down |-> TRUE]]}

-----------------------------------------------------------------------------
(* History kept for the properties *)

NoFree == [free_cpu_cores |-> 0, free_mem_gb |-> 0, free_gpu_vram_gb |-> 0]

\* The free amounts of a node, as _effective_caps reports them.
FreeOf(node) ==
    LET eff == _effective_caps(node)
    IN  [free_cpu_cores |-> eff.free_cpu_cores,
         free_mem_gb |-> eff.free_mem_gb,
         free_gpu_vram_gb |-> eff.free_gpu_vram_gb]

\* op: the operation; node, rid: its arguments or result; ok: it succeeded
\* (reserve returned an id, release returned True, apply_observation
\* returned normally); pair: a release of the id the directly preceding
\* reserve returned; free0: the node's free amounts before that reserve.
LastOp(op, node, rid, ok, pair, free0) ==
    [op |-> op, node |-> node, rid |-> rid, ok |-> ok,
     pair |-> pair, free0 |-> free0]

-----------------------------------------------------------------------------
(* The operations, each run to completion under the store's lock *)

Reserve(req) ==
    /\ _res_seq <= MaxSeq
    /\ LET r == reserve(nodes_by_name, _res_seq, req)
       IN  /\ nodes_by_name' = r.nodes
           /\ _res_seq' = r.seq
           /\ issued' = IF r.ret = None THEN issued ELSE Append(issued, r.ret)
           /\ last' = LastOp("reserve", req.node, r.ret, r.ret # None, FALSE,
                             IF r.ret = None THEN NoFree
                             ELSE FreeOf(nodes_by_name[req.node]))
    /\ UNCHANGED <<links_by_key, _overrides, snap, aux_vars, thread_vars>>

Release(node_name, reservation_id) ==
    /\ LET r == release(nodes_by_name, node_name, reservation_id)
           paired == /\ last.op = "reserve"
                     /\ last.ok
                     /\ last.node = node_name
                     /\ last.rid = reservation_id
       IN  /\ nodes_by_name' = r.nodes
           /\ last' = LastOp("release", node_name, reservation_id, r.ret,
                             paired, IF paired THEN last.free0 ELSE NoFree)
    /\ UNCHANGED <<links_by_key, _overrides, _res_seq, snap, aux_vars, issued, thread_vars>>

ApplyObservation(p) ==
    /\ LET r == apply_observation(nodes_by_name, links_by_key, p)
       IN  /\ nodes_by_name' = r.nodes
           /\ links_by_key' = r.links
           /\ last' = LastOp("observe", IF Has(p, "node") THEN p.node ELSE "",
                             None, r.outcome = "ok", FALSE, NoFree)
    /\ UNCHANGED <<_overrides, _res_seq, snap, aux_vars, issued, thread_vars>>

-----------------------------------------------------------------------------
(* The store after construction, and its sequential use *)

NoThread == "none"

Threads == {"t1", "t2"}

NoSnapshot == [taken |-> FALSE, nodes |-> <<>>, links |-> <<>>]

NoRes == [cpu_cores |-> 0, mem_gb |-> 0, gpu_vram_gb |-> 0]

\* The locals of a call in progress: its arguments, the id reserve() has
\* formatted (rid) and the reservation release() has popped (res).
NoCall == [op |-> "none", node |-> "", req |-> Request("", 0, 0, 0),
           rid |-> None, res |-> NoRes]

\* No planner call has returned yet.
NoPlan == [planner |-> "none", dry_run |-> FALSE, assignments |-> <<>>,
           reservations |-> <<>>, shadow_assignments |-> <<>>,
           per_stage |-> <<>>, infeasible |-> FALSE, error |-> ""]

\* No planner call is in progress.
NoPlanning == [pc |-> "idle"]

\* No chaos run has been started.
NoChaos == [started |-> FALSE, raised |-> FALSE, dt_endpoint |-> FALSE,
            raw |-> <<>>, schedule |-> <<>>, idx |-> 1]

\* The loops before engine.run is called: the watcher thread runs from the
\* construction of the store on (auto_start_watchers).  vt is the virtual
\* time in instants (see Instant below); applied lists the events applied,
\* each with the virtual time of its application; late counts the events
\* applied, and watch_late the watcher iterations run, after the loop's
\* cancellation signal was set.
NoLoops ==
    [run |-> "idle", vt |-> 0, applied |-> <<>>, _stop |-> FALSE,
     stop_in_body |-> FALSE, late |-> 0, raises |-> 0,
     watch |-> "test", _stop_event |-> FALSE, watch_raises |-> 0,
     watch_late |-> 0]

StoreInit ==
    /\ nodes_by_name = _load_nodes_locked
    /\ links_by_key = _load_topology_locked
    /\ _overrides = EmptyOverrides
    /\ _res_seq = 1
    /\ issued = <<>>
    /\ last = LastOp("init", "", None, TRUE, FALSE, NoFree)

Init ==
    /\ StoreInit
    /\ snap = NoSnapshot
    /\ lock = NoThread
    /\ pc = [t \in Threads |-> "idle"]
    /\ call = [t \in Threads |-> NoCall]
    /\ done = [t \in Threads |-> [calls |-> 0, overlapped |-> FALSE]]
    /\ lin = [nodes |-> _load_nodes_locked, seq |-> 1, agree |-> TRUE]
    /\ plan = NoPlan
    /\ overrides_json = EmptyOverrides
    /\ chaos = NoChaos
    /\ loops = NoLoops
    /\ written = <<>>
    /\ planning = NoPlanning

Next ==
    \/ \E req \in Requests : Reserve(req)
    \/ \E n \in NodeArgs, rid \in RidArgs : Release(n, rid)
    \/ \E p \in NodePayloads : ApplyObservation(p)

Spec == Init /\ [][Next]_vars

-----------------------------------------------------------------------------
(* Quantities the properties speak about *)

RECURSIVE SumOver(_, _, _)
SumOver(m, keys, field) ==
    IF keys = {} THEN 0
    ELSE LET k == CHOOSE x \in keys : TRUE
         IN  m[k][field] + SumOver(m, keys \ {k}, field)

\* Sum of one amount over the outstanding reservations of a node.
ReservedSum(node, field) ==
    SumOver(node.dyn.reservations, DOMAIN node.dyn.reservations, field)

\* max_cpu_cores * (1 - clamp(thermal_derate, 0, 1)), ram_gb, gpu_vram_gb
EffectiveCapacity(node) ==
    [cpu |-> (node.caps.max_cpu_cores
                * (100 - clamp(node.dyn.thermal_derate, 0, 100))) \div 100,
     mem |-> node.caps.ram_gb,
     vram |-> node.caps.gpu_vram_gb]

UsedOf(node) ==
    [cpu |-> node.dyn.used_cpu_cores,
     mem |-> node.dyn.used_mem_gb,
     vram |-> node.dyn.used_gpu_vram_gb]

\* The step just taken is a reserve() that returned an id.
ReserveSucceeded == Len(issued') = Len(issued) + 1

-----------------------------------------------------------------------------
(* C1 *)

\* C1: on every node the sums of cpu_cores, mem_gb and gpu_vram_gb over its
\* outstanding reservations equal used_cpu_cores, used_mem_gb and
\* used_gpu_vram_gb, after any sequence of Reserve, Release and
\* ApplyObservation.
C1_ReservedSumsEqualUsed ==
    \A n \in DOMAIN nodes_by_name :
        LET node == nodes_by_name[n]
        IN  /\ ReservedSum(node, "cpu_cores") = node.dyn.used_cpu_cores
            /\ ReservedSum(node, "mem_gb") = node.dyn.used_mem_gb
            /\ ReservedSum(node, "gpu_vram_gb") = node.dyn.used_gpu_vram_gb

-----------------------------------------------------------------------------
(* C2 *)

\* C2 as stated: right after any successful Reserve on a node, used_cpu_cores
\* is at most max_cpu_cores * (1 - clamp(thermal_derate, 0, 1)), used_mem_gb at
\* most ram_gb and used_gpu_vram_gb at most gpu_vram_gb.
C2_UsedWithinCapacityAfterReserve ==
    (last.op = "reserve" /\ last.ok) =>
        LET node == nodes_by_name[last.node]
        IN  /\ UsedOf(node).cpu <= EffectiveCapacity(node).cpu
            /\ UsedOf(node).mem <= EffectiveCapacity(node).mem
            /\ UsedOf(node).vram <= EffectiveCapacity(node).vram

\* C2 amended: a successful Reserve leaves each used amount of its node at
\* most the larger of its value before the call and the effective capacity;
\* so a Reserve never takes a used amount above the effective capacity, and
\* never raises one that is already above it.
C2_ReserveNeverRaisesAboveCapacity ==
    [][ReserveSucceeded =>
          LET before == nodes_by_name[last'.node]
              after == nodes_by_name'[last'.node]
              cap == EffectiveCapacity(before)
          IN  /\ UsedOf(after).cpu <= Max(UsedOf(before).cpu, cap.cpu)
              /\ UsedOf(after).mem <= Max(UsedOf(before).mem, cap.mem)
              /\ UsedOf(after).vram <= Max(UsedOf(before).vram, cap.vram)]_vars

\* C2 witness: a Reserve for a positive cpu amount has succeeded on a derated
\* node and filled its effective cpu capacity.
C2_Witness ==
    /\ last.op = "reserve"
    /\ last.ok
    /\ last.node = "n1"
    /\ nodes_by_name["n1"].dyn.thermal_derate = 50
    /\ last.free0.free_cpu_cores = 1
    /\ UsedOf(nodes_by_name["n1"]).cpu = EffectiveCapacity(nodes_by_name["n1"]).cpu

-----------------------------------------------------------------------------
(* C3 *)

\* The cases in which C3 says Reserve refuses: the named node is missing or
\* down, or a requested amount exceeds the node's effective free amount.
MustRefuse(req) ==
    \/ req.node \notin DOMAIN nodes_by_name
    \/ nodes_by_name[req.node].dyn.down
    \/ LET free == FreeOf(nodes_by_name[req.node])
       IN  \/ req.cpu_cores > free.free_cpu_cores
           \/ req.mem_gb > free.free_mem_gb
           \/ req.gpu_vram_gb > free.free_gpu_vram_gb

\* C3: Reserve returns none when the node is missing or down or a requested
\* amount exceeds the effective free amount, and every such refusal leaves
\* the store unchanged: no used_* field changes, no reservation is recorded
\* and the reservation counter does not advance.
C3_RefusalLeavesStoreUnchanged ==
    [][\A req \in Requests :
          (Reserve(req) /\ MustRefuse(req)) =>
              /\ last'.rid = None
              /\ ~last'.ok
              /\ nodes_by_name' = nodes_by_name
              /\ _res_seq' = _res_seq
              /\ issued' = issued]_vars

\* C3 witness: a Reserve on a node that is known and up, and that already
\* holds a reservation, was refused (for want of free capacity).
C3_Witness ==
    /\ last.op = "reserve"
    /\ ~last.ok
    /\ last.node = "n1"
    /\ ~nodes_by_name["n1"].dyn.down
    /\ DOMAIN nodes_by_name["n1"].dyn.reservations # {}

-----------------------------------------------------------------------------
(* C6 *)

\* C6: after a successful Release(node, id) the id no longer exists on the
\* node, each of used_cpu_cores, used_mem_gb, used_gpu_vram_gb has decreased
\* by exactly the amount stored in the reservation, and all other
\* reservations and all other nodes are unchanged.
C6_ReleaseDecrementsExactly ==
    [][(last'.op = "release" /\ last'.ok) =>
          LET n == last'.node
              rid == last'.rid
              before == nodes_by_name[n].dyn
              after == nodes_by_name'[n].dyn
          IN  /\ rid \in DOMAIN before.reservations
              /\ rid \notin DOMAIN after.reservations
              /\ after.used_cpu_cores =
                    before.used_cpu_cores - before.reservations[rid].cpu_cores
              /\ after.used_mem_gb =
                    before.used_mem_gb - before.reservations[rid].mem_gb
              /\ after.used_gpu_vram_gb =
                    before.used_gpu_vram_gb - before.reservations[rid].gpu_vram_gb
              /\ after.reservations = map_pop(before.reservations, rid)
              /\ \A m \in DOMAIN nodes_by_name \ {n} :
                    nodes_by_name'[m] = nodes_by_name[m]]_vars

-----------------------------------------------------------------------------
(* C7 *)

\* C7: Release returns false and leaves the store unchanged when the node is
\* unknown or the id is not outstanding on that node; so a second Release of
\* the same id, right after the first, returns false and changes nothing.
C7_UnknownReleaseIsNoOp ==
    [][/\ \A n \in NodeArgs, rid \in RidArgs :
            (/\ Release(n, rid)
             /\ \/ n \notin DOMAIN nodes_by_name
                \/ rid \notin DOMAIN nodes_by_name[n].dyn.reservations)
            => (~last'.ok /\ UNCHANGED <<store_vars, issued>>)
       /\ \A n \in NodeArgs, rid \in RidArgs :
            (/\ last.op = "release" /\ last.ok
             /\ last.node = n /\ last.rid = rid
             /\ Release(n, rid))
            => (~last'.ok /\ UNCHANGED <<store_vars, issued>>)]_vars

\* C7 witness: an id that was issued and released has just been released
\* again on the same node, and the release returned false.
C7_Witness ==
    /\ last.op = "release"
    /\ ~last.ok
    /\ last.node = "n1"
    /\ \E i \in 1..Len(issued) : issued[i] = last.rid
    /\ \A n \in DOMAIN nodes_by_name :
          last.rid \notin DOMAIN nodes_by_name[n].dyn.reservations
    /\ nodes_by_name["n2"].dyn.reservations = <<>>
    /\ Len(issued) = 1

-----------------------------------------------------------------------------
(* C8 *)

\* C8: a Reserve that is accepted, directly followed by the Release of the
\* id it returned, leaves the node's free cpu, free mem and free vram equal
\* to their values before the Reserve.
C8_ReserveReleaseRestoresFree ==
    (last.op = "release" /\ last.ok /\ last.pair) =>
        FreeOf(nodes_by_name[last.node]) = last.free0

-----------------------------------------------------------------------------
(* Links: observations with arbitrary keys, and override merges *)

K12 == link_key(Str("n1"), Str("n2"))

\* The same pair of endpoints, written in the other order.
K21 == Str("n2") \o <<Sep>> \o Str("n1")

K13 == link_key(Str("n1"), Str("n3"))

\* A key without a separator.
KBare == Str("n1")

\* An optional number that is set.
Some(v) == <<v>>

LinkChanges ==
    {<<>>,
     [down |-> TRUE],
     [down |-> FALSE],
     [loss_pct |-> Some(12)],
     [bogus |-> 1]}

\* Link observations: on the loaded link, on keys the store does not hold,
\* on a key that cannot be split, and without a key.
LinkPayloads ==
    {[type |-> "link", key |-> k, changes |-> c] :
        k \in {K12, K21, K13}, c \in LinkChanges}
    \cup {[type |-> "link", key |-> KBare, changes |-> [down |-> TRUE]],
          [type |-> "link", changes |-> [down |-> TRUE]],
          [type |-> "other"],
          [type |-> "node", node |-> "n1", changes |-> [down |-> TRUE]]}

\* States of sim/overrides.json that the watcher can find.
OverrideFiles ==
    {[kind |-> "missing"],
     [kind |-> "unreadable"],
     [kind |-> "doc", doc |-> EmptyOverrides],
     [kind |-> "doc", doc |->
        [nodes |-> [n1 |-> [thermal_derate |-> 50]],
         links |-> (K12 :> [down |-> TRUE])]],
     [kind |-> "doc", doc |->
        [nodes |-> [n1 |-> [down |-> FALSE], ghost |-> [down |-> TRUE]],
         links |-> (K21 :> [loss_pct |-> Some(12)])
                   @@ (KBare :> [down |-> TRUE])]]}

\* One watcher iteration that finds the override file changed.
LoadOverrides(file) ==
    /\ LET r == _load_overrides_locked(_overrides, nodes_by_name, links_by_key, file)
       IN  /\ _overrides' = r.overrides
           /\ nodes_by_name' = r.nodes
           /\ links_by_key' = r.links
           /\ last' = LastOp("load_overrides", "", None,
                             file.kind # "unreadable", FALSE, NoFree)
    /\ UNCHANGED <<_res_seq, snap, aux_vars, issued, thread_vars>>

NextLinks ==
    \/ \E p \in LinkPayloads : ApplyObservation(p)
    \/ \E file \in OverrideFiles : LoadOverrides(file)

SpecLinks == Init /\ [][NextLinks]_vars

-----------------------------------------------------------------------------
(* C10 *)

\* The unordered pair of endpoints a link entry denotes.
Endpoints(link) == {link.a, link.b}

\* C10: in every reachable store state each key of the link map is the
\* canonical key min(a,b)|max(a,b) of its endpoints, key(a,b) = key(b,a),
\* and no two entries of the link map denote the same unordered pair of
\* endpoints.
C10_LinkKeysCanonical ==
    /\ \A k \in DOMAIN links_by_key :
          k = link_key(links_by_key[k].a, links_by_key[k].b)
    /\ \A k \in DOMAIN links_by_key :
          link_key(links_by_key[k].a, links_by_key[k].b)
            = link_key(links_by_key[k].b, links_by_key[k].a)
    /\ \A k1, k2 \in DOMAIN links_by_key :
          k1 # k2 => Endpoints(links_by_key[k1]) # Endpoints(links_by_key[k2])

-----------------------------------------------------------------------------
(* snapshot() and the structure it returns *)

\* The defaults section of the topology document (none is given).
Defaults == [network |-> <<>>]

\* pick(key, default_key, default_val) of _effective_link, followed by
\* safe_float(., default_val): the dyn value if set, else the base value, else
\* the topology default, else default_val.
pick(link, key, default_val) ==
    IF link.dyn[key] # None THEN link.dyn[key][1]
    ELSE IF key \in DOMAIN link.base THEN link.base[key]
    ELSE IF key \in DOMAIN Defaults.network THEN Defaults.network[key]
    ELSE default_val

\* Effective link metrics.  rtt_ms and jitter_ms are kept in tenths of a
\* millisecond (defaults 5.0 ms and 0.5 ms).
_effective_link(link) ==
    [down |-> link.dyn.down,
     speed_gbps |-> pick(link, "speed_gbps", 1),
     rtt_ms |-> pick(link, "rtt_ms", 50),
     jitter_ms |-> pick(link, "jitter_ms", 5),
     loss_pct |-> pick(link, "loss_pct", 0),
     ecn |-> pick(link, "ecn", FALSE)]

\* The structure snapshot() builds under the lock.  The outer lists and
\* dicts and the "effective" dicts are new objects.  "caps" and "dyn" of a
\* node entry and "base" and "dyn" of a link entry are the store's own dict
\* objects: the entry holds a reference (the name or key of the owner), not
\* a copy.
snapshot(nodes, links) ==
    [taken |-> TRUE,
     nodes |-> [n \in DOMAIN nodes |->
                    [name |-> n, caps_ref |-> n, dyn_ref |-> n,
                     effective |-> _effective_caps(nodes[n])]],
     links |-> [k \in DOMAIN links |->
                    [key |-> k, a |-> links[k].a, b |-> links[k].b,
                     base_ref |-> k, dyn_ref |-> k,
                     effective |-> _effective_link(links[k])]]]

\* What a reader of the structure s sees while the store is (nodes, links):
\* references are followed to the store's objects.
SnapshotView(s, nodes, links) ==
    [nodes |-> [n \in DOMAIN s.nodes |->
                    [name |-> s.nodes[n].name,
                     caps |-> nodes[s.nodes[n].caps_ref].caps,
                     dyn |-> nodes[s.nodes[n].dyn_ref].dyn,
                     effective |-> s.nodes[n].effective]],
     links |-> [k \in DOMAIN s.links |->
                    [key |-> s.links[k].key, a |-> s.links[k].a, b |-> s.links[k].b,
                     base |-> links[s.links[k].base_ref].base,
                     dyn |-> links[s.links[k].dyn_ref].dyn,
                     effective |-> s.links[k].effective]]]

Snapshot ==
    /\ snap' = snapshot(nodes_by_name, links_by_key)
    /\ last' = LastOp("snapshot", "", None, TRUE, FALSE, NoFree)
    /\ UNCHANGED <<store_vars, issued, thread_vars, aux_vars>>

\* Writes a holder of the snapshot can make to the returned structure.
SnapshotWrites ==
    {[part |-> "node.dyn", of |-> "n1", field |-> "down", value |-> TRUE],
     [part |-> "node.caps", of |-> "n1", field |-> "max_cpu_cores", value |-> 0],
     [part |-> "node.effective", of |-> "n1", field |-> "free_cpu_cores", value |-> 0],
     [part |-> "link.dyn", of |-> K12, field |-> "down", value |-> TRUE],
     [part |-> "link.base", of |-> K12, field |-> "speed_gbps", value |-> 0]}

\* The holder of the snapshot assigns to one field of the structure.  A
\* write to an "effective" dict stays in the structure; a write to a
\* referenced dict lands in the object the store owns.
MutateSnapshot(w) ==
    /\ snap.taken
    /\ nodes_by_name' =
          IF w.part = "node.dyn"
          THEN [nodes_by_name EXCEPT ![snap.nodes[w.of].dyn_ref].dyn[w.field] = w.value]
          ELSE IF w.part = "node.caps"
          THEN [nodes_by_name EXCEPT ![snap.nodes[w.of].caps_ref].caps[w.field] = w.value]
          ELSE nodes_by_name
    /\ links_by_key' =
          IF w.part = "link.dyn"
          THEN [links_by_key EXCEPT ![snap.links[w.of].dyn_ref].dyn[w.field] = w.value]
          ELSE IF w.part = "link.base"
          THEN [links_by_key EXCEPT ![snap.links[w.of].base_ref].base[w.field] = w.value]
          ELSE links_by_key
    /\ snap' =
          IF w.part = "node.effective"
          THEN [snap EXCEPT !.nodes[w.of].effective[w.field] = w.value]
          ELSE snap
    /\ last' = LastOp("mutate_snapshot", "", None, TRUE, FALSE, NoFree)
    /\ UNCHANGED <<_overrides, _res_seq, issued, thread_vars, aux_vars>>

\* The store operations run beside a snapshot holder.
SnapRequests == {Request("n1", c, 1, 0) : c \in 1..MaxAmount}

SnapPayloads ==
    {[type |-> "node", node |-> "n1", changes |-> [down |-> TRUE, thermal_derate |-> 50]],
     [type |-> "link", key |-> K12, changes |-> [down |-> TRUE]]}

SnapFiles ==
    {[kind |-> "doc", doc |->
        [nodes |-> [n1 |-> [down |-> FALSE]],
         links |-> (K12 :> [loss_pct |-> Some(12)])]]}

NextSnap ==
    \/ Snapshot
    \/ \E w \in SnapshotWrites : MutateSnapshot(w)
    \/ \E req \in SnapRequests : Reserve(req)
    \/ \E rid \in RidArgs : Release("n1", rid)
    \/ \E p \in SnapPayloads : ApplyObservation(p)
    \/ \E file \in SnapFiles : LoadOverrides(file)

SpecSnap == Init /\ [][NextSnap]_vars

-----------------------------------------------------------------------------
(* C9 *)

StoreOps == {"reserve", "release", "observe", "load_overrides"}

\* C9: a view returned by Snapshot is independent of the store in both
\* directions: a write to any part of the returned structure (a node's dyn
\* or caps, a link's base or dyn) does not change the store, and a later
\* Reserve, Release, ApplyObservation or override merge does not change what
\* a previously returned snapshot shows.
C9_SnapshotIndependent ==
    [][/\ (last'.op = "mutate_snapshot") =>
            (nodes_by_name' = nodes_by_name /\ links_by_key' = links_by_key)
       /\ (snap.taken /\ last'.op \in StoreOps) =>
            SnapshotView(snap', nodes_by_name', links_by_key')
              = SnapshotView(snap, nodes_by_name, links_by_key)]_vars

-----------------------------------------------------------------------------
(* reserve() and release() called from several threads.  Each call is      *)
(* followed statement by statement: it waits for the store's lock, runs    *)
(* its body while it holds the lock, and gives the lock back on return.    *)

\* Calls one thread makes.
MaxCalls == 2

\* Mutant of lock_free: the lock is handed to every thread that asks.
lock_free_always(owner, t) == TRUE

\* threading.RLock: a thread gets the lock when no thread holds it or when
\* it holds it itself.
lock_free(owner, t) == owner = NoThread \/ owner = t

\* Requests of the threads: positive amounts on both nodes.
ConcRequests ==
    {Request("n1", c, 1, 0) : c \in 1..MaxAmount}
    \cup {Request("n2", 1, 0, 0)}

Others(t) == Threads \ {t}

\* A thread enters reserve(req).
CallReserve(t, req) ==
    /\ pc[t] = "idle"
    /\ done[t].calls < MaxCalls
    /\ pc' = [pc EXCEPT ![t] = "lock"]
    /\ call' = [call EXCEPT ![t] = [NoCall EXCEPT !.op = "reserve",
                                        !.node = req.node, !.req = req]]
    /\ done' = [done EXCEPT ![t].overlapped =
                    @ \/ \E o \in Others(t) : pc[o] # "idle"]
    /\ UNCHANGED <<store_vars, snap, aux_vars, lock, lin, issued, last>>

\* A thread enters release(node_name, reservation_id).
CallRelease(t, node_name, reservation_id) ==
    /\ pc[t] = "idle"
    /\ done[t].calls < MaxCalls
    /\ pc' = [pc EXCEPT ![t] = "lock"]
    /\ call' = [call EXCEPT ![t] = [NoCall EXCEPT !.op = "release",
                                        !.node = node_name,
                                        !.rid = reservation_id]]
    /\ done' = [done EXCEPT ![t].overlapped =
                    @ \/ \E o \in Others(t) : pc[o] # "idle"]
    /\ UNCHANGED <<store_vars, snap, aux_vars, lock, lin, issued, last>>

\* with self._lock:
Acquire(t) ==
    /\ pc[t] = "lock"
    /\ lock_free(lock, t)
    /\ lock' = t
    /\ pc' = [pc EXCEPT ![t] = IF call[t].op = "reserve"
                               THEN "reserve_check" ELSE "release_pop"]
    /\ UNCHANGED <<store_vars, snap, aux_vars, call, done, lin, issued, last>>

\* The store a sequential run gives when the returning call is run after
\* the calls that returned before it, and whether every call so far
\* returned what it returns in that run.
Linearized(c, ret) ==
    IF c.op = "reserve"
    THEN LET r == reserve(lin.nodes, lin.seq, c.req)
         IN  [nodes |-> r.nodes, seq |-> r.seq,
              agree |-> lin.agree /\ r.ret = ret]
    ELSE LET r == release(lin.nodes, c.node, c.rid)
         IN  [nodes |-> r.nodes, seq |-> lin.seq,
              agree |-> lin.agree /\ (r.ret = (ret # None))]

\* return: the with block ends and the lock is given back.  ret is the id
\* of the reservation the call made or released, None when it failed.
Return(t, ret) ==
    /\ lock' = NoThread
    /\ pc' = [pc EXCEPT ![t] = "idle"]
    /\ call' = [call EXCEPT ![t] = NoCall]
    /\ done' = [done EXCEPT ![t].calls = @ + 1]
    /\ lin' = Linearized(call[t], ret)
    /\ issued' = IF call[t].op = "reserve" /\ ret # None
                 THEN Append(issued, ret) ELSE issued
    /\ last' = LastOp(call[t].op, call[t].node,
                      IF call[t].op = "reserve" THEN ret ELSE call[t].rid,
                      ret # None, FALSE, NoFree)

\* reserve(), the checks: return None or go on to allocate.
ReserveCheck(t) ==
    /\ pc[t] = "reserve_check"
    /\ IF reserve_refuses(nodes_by_name, call[t].req)
       THEN Return(t, None)
       ELSE /\ pc' = [pc EXCEPT ![t] = "reserve_allocate"]
            /\ UNCHANGED <<lock, call, done, lin, issued, last>>
    /\ UNCHANGED <<store_vars, snap, aux_vars>>

\* reserve(), allocate: the used amounts are raised.
ReserveAllocate(t) ==
    /\ pc[t] = "reserve_allocate"
    /\ nodes_by_name' = [nodes_by_name EXCEPT ![call[t].node].dyn =
                            add_used(@, call[t].req)]
    /\ pc' = [pc EXCEPT ![t] = "reserve_rid"]
    /\ UNCHANGED <<links_by_key, _overrides, _res_seq, snap, aux_vars,
                   lock, call, done, lin, issued, last>>

\* reserve(), the id: formatted from the counter, and the counter advanced.
ReserveRid(t) ==
    /\ pc[t] = "reserve_rid"
    /\ call' = [call EXCEPT ![t].rid = FormatRid(_res_seq)]
    /\ _res_seq' = bump_seq(_res_seq)
    /\ pc' = [pc EXCEPT ![t] = "reserve_record"]
    /\ UNCHANGED <<nodes_by_name, links_by_key, _overrides, snap, aux_vars,
                   lock, done, lin, issued, last>>

\* reserve(), the record under the id, and return rid.
ReserveRecord(t) ==
    /\ pc[t] = "reserve_record"
    /\ nodes_by_name' = [nodes_by_name EXCEPT ![call[t].node].dyn =
                            record_reservation(@, call[t].req, call[t].rid)]
    /\ Return(t, call[t].rid)
    /\ UNCHANGED <<links_by_key, _overrides, _res_seq, snap, aux_vars>>

\* release(), the lookup: return False, or pop the reservation.
ReleasePop(t) ==
    /\ pc[t] = "release_pop"
    /\ LET known == /\ call[t].node \in DOMAIN nodes_by_name
                    /\ call[t].rid \in
                         DOMAIN nodes_by_name[call[t].node].dyn.reservations
       IN  IF ~known
           THEN /\ Return(t, None)
                /\ UNCHANGED nodes_by_name
           ELSE LET dyn == nodes_by_name[call[t].node].dyn
                IN  /\ call' = [call EXCEPT ![t].res =
                                    dyn.reservations[call[t].rid]]
                    /\ nodes_by_name' =
                         [nodes_by_name EXCEPT ![call[t].node].dyn.reservations =
                              map_pop(@, call[t].rid)]
                    /\ pc' = [pc EXCEPT ![t] = "release_decrement"]
                    /\ UNCHANGED <<lock, done, lin, issued, last>>
    /\ UNCHANGED <<links_by_key, _overrides, _res_seq, snap, aux_vars>>

\* release(), the used amounts are lowered, and return True.
ReleaseDecrement(t) ==
    /\ pc[t] = "release_decrement"
    /\ nodes_by_name' = [nodes_by_name EXCEPT ![call[t].node].dyn =
                            release_decrement(@, call[t].res)]
    /\ Return(t, call[t].rid)
    /\ UNCHANGED <<links_by_key, _overrides, _res_seq, snap, aux_vars>>

NextConc ==
    \/ \E t \in Threads, req \in ConcRequests : CallReserve(t, req)
    \/ \E t \in Threads, n \in NodeNames, rid \in RidArgs :
            CallRelease(t, n, rid)
    \/ \E t \in Threads : Acquire(t)
    \/ \E t \in Threads : ReserveCheck(t)
    \/ \E t \in Threads : ReserveAllocate(t)
    \/ \E t \in Threads : ReserveRid(t)
    \/ \E t \in Threads : ReserveRecord(t)
    \/ \E t \in Threads : ReleasePop(t)
    \/ \E t \in Threads : ReleaseDecrement(t)

SpecConc == Init /\ [][NextConc]_vars

-----------------------------------------------------------------------------
\* C4: Reserve and Release called from several threads are linearizable:
\* the values the calls returned and the store they leave equal those of
\* running the same calls one after the other in some order (here: the
\* order in which they returned).  In particular the reservations
\* outstanding on a node never add up to more than its capacity, so two
\* concurrent Reserves whose combined demand exceeds the free capacity of
\* the node never both succeed.
C4_Linearizable ==
    /\ lin.agree
    /\ lock = NoThread =>
         /\ lin.nodes = nodes_by_name
         /\ lin.seq = _res_seq
    /\ \A n \in NodeNames :
         /\ ReservedSum(nodes_by_name[n], "cpu_cores")
                <= nodes_by_name[n].caps.max_cpu_cores
         /\ ReservedSum(nodes_by_name[n], "mem_gb")
                <= nodes_by_name[n].caps.ram_gb

\* Two threads have called concurrently for more cpu on n1 than it has, and
\* both calls have returned: one holds its reservation, the other was
\* refused.
C4_Witness ==
    /\ lock = NoThread
    /\ \A t \in Threads : pc[t] = "idle" /\ done[t].calls = 1
    /\ \E t \in Threads : done[t].overlapped
    /\ last.op = "reserve" /\ last.node = "n1" /\ ~last.ok
    /\ Len(issued) = 1
    /\ issued[1] \in DOMAIN nodes_by_name["n1"].dyn.reservations
    /\ nodes_by_name["n1"].dyn.used_cpu_cores > 0

\* C5: the reservation ids returned by successful Reserves are strictly
\* increasing in their sequence number, over all threads, so no id is
\* returned twice, also after the reservation of an earlier id was released.
C5_IdsStrictlyIncreasing ==
    \A i \in 1..Len(issued) : \A j \in 1..Len(issued) :
        i < j => SeqNo(issued[i]) < SeqNo(issued[j])

\* Two ids were returned, to different effect: the first one has been
\* released again, the second one, a larger one, is outstanding.
C5_Witness ==
    /\ Len(issued) >= 2
    /\ \A n \in NodeNames :
            issued[1] \notin DOMAIN nodes_by_name[n].dyn.reservations
    /\ \E n \in NodeNames :
            issued[2] \in DOMAIN nodes_by_name[n].dyn.reservations
    /\ \E t \in Threads : done[t].overlapped

-----------------------------------------------------------------------------
(* Observations and override merges on a store that holds reservations *)

MergeRequests == {Request("n1", 1, 1, 0)}

\* Observations of every payload type and target, with and without changes.
MergePayloads ==
    {[type |-> "node", node |-> "n1", changes |-> c] :
        c \in {<<>>, [down |-> TRUE], [bogus |-> 1],
               [thermal_derate |-> 50, bogus |-> 1]}}
    \cup {[type |-> "node", node |-> "ghost", changes |-> <<>>]}
    \cup {[type |-> "link", key |-> k, changes |-> c] :
            k \in {K12, K13}, c \in {<<>>, [down |-> TRUE]}}
    \cup {[type |-> "link", key |-> KBare, changes |-> <<>>],
          [type |-> "other", changes |-> <<>>]}

\* Override documents: those of OverrideFiles, and one whose node entry also
\* carries bookkeeping fields of the dyn slot.
MergeFiles ==
    OverrideFiles
    \cup {[kind |-> "doc", doc |->
            [nodes |-> [n1 |-> [power_cap_w |-> Some(90), used_cpu_cores |-> 0,
                                reservations |-> <<>>]],
             links |-> (K12 :> [speed_gbps |-> Some(2)])]]}

NextMerge ==
    \/ \E req \in MergeRequests : Reserve(req)
    \/ \E rid \in RidArgs : Release("n1", rid)
    \/ \E p \in MergePayloads : ApplyObservation(p)
    \/ \E file \in MergeFiles : LoadOverrides(file)

SpecMerge == Init /\ [][NextMerge]_vars

-----------------------------------------------------------------------------
(* C11, C12, C13 *)

\* The entry of a section of an override document for one name; empty when
\* the section does not mention the name.
EntryOf(section, name) ==
    IF name \in DOMAIN section THEN section[name] ELSE <<>>

\* The document a file state makes the store merge.
DocOf(file) == IF file.kind = "doc" THEN file.doc ELSE EmptyOverrides

BookkeepingKeys ==
    {"used_cpu_cores", "used_mem_gb", "used_gpu_vram_gb", "reservations"}

\* C11: when an override document is merged, every node or link dyn field
\* that the document's entry does not contain keeps the value it had before
\* the merge; nodes and links the document does not mention are unchanged;
\* used_* and reservations are never changed by the merge.
C11_OverrideMergeFrame ==
    \A file \in MergeFiles :
        LET r == _load_overrides_locked(_overrides, nodes_by_name, links_by_key, file)
            doc == DocOf(file)
        IN  /\ DOMAIN r.nodes = DOMAIN nodes_by_name
            /\ \A n \in DOMAIN nodes_by_name :
                 /\ r.nodes[n].caps = nodes_by_name[n].caps
                 /\ \A k \in DOMAIN nodes_by_name[n].dyn :
                      (k \notin DOMAIN EntryOf(doc.nodes, n) \/ k \in BookkeepingKeys)
                         => r.nodes[n].dyn[k] = nodes_by_name[n].dyn[k]
                 /\ n \notin DOMAIN doc.nodes => r.nodes[n] = nodes_by_name[n]
            /\ \A k \in DOMAIN links_by_key :
                 /\ k \in DOMAIN r.links
                 /\ r.links[k].a = links_by_key[k].a
                 /\ r.links[k].b = links_by_key[k].b
                 /\ r.links[k].base = links_by_key[k].base
                 /\ \A f \in DOMAIN links_by_key[k].dyn :
                      f \notin DOMAIN EntryOf(doc.links, k)
                         => r.links[k].dyn[f] = links_by_key[k].dyn[f]
                 /\ k \notin DOMAIN doc.links => r.links[k] = links_by_key[k]

\* A document that sets thermal_derate on n1 has just been merged while n1
\* was down by an earlier observation and held a reservation: the derate is
\* the document's, down and the reservation are as before.
C11_Witness ==
    /\ last.op = "load_overrides" /\ last.ok
    /\ "n1" \in DOMAIN _overrides.nodes
    /\ DOMAIN _overrides.nodes["n1"] = {"thermal_derate"}
    /\ nodes_by_name["n1"].dyn.thermal_derate = 50
    /\ nodes_by_name["n1"].dyn.down
    /\ nodes_by_name["n1"].dyn.used_cpu_cores = 1
    /\ DOMAIN nodes_by_name["n1"].dyn.reservations # {}

\* C12: apply_observation with an empty changes map is a no-op for every
\* payload type and target: the node map, the link map (its key set
\* included) and every dyn field are afterwards as before, and the call ends
\* without an error.
C12_EmptyObservationIsNoOp ==
    [][\A p \in MergePayloads :
          (ChangesOf(p) = <<>> /\ ApplyObservation(p)) =>
              /\ last'.ok
              /\ nodes_by_name' = nodes_by_name
              /\ links_by_key' = links_by_key]_vars

\* C13: apply_observation with a node payload for an existing node merges
\* the known dyn keys of its changes into that node, ignores the unknown
\* keys and completes normally; an observation that ends in an error has
\* changed no state.
C13_NodeObservationCompletes ==
    [][\A p \in MergePayloads :
          ApplyObservation(p) =>
              /\ (p.type = "node" /\ p.node \in DOMAIN nodes_by_name) =>
                    /\ last'.ok
                    /\ nodes_by_name' =
                         [nodes_by_name EXCEPT ![p.node].dyn =
                              merge_known(@, ChangesOf(p))]
                    /\ links_by_key' = links_by_key
              /\ ~last'.ok =>
                    /\ nodes_by_name' = nodes_by_name
                    /\ links_by_key' = links_by_key]_vars

-----------------------------------------------------------------------------
(* dt/cost_model.py.  Times are integers in hundredths of a millisecond;   *)
(* float("inf") and nan are two values outside the finite range, and the   *)
(* arithmetic on them is that of IEEE floats.                              *)

\* float("inf")
Inf == 2000000000

\* nan, as 0.0 * inf gives it
NaN == -1

IsFinite(x) == x # Inf /\ x # NaN

\* x + y
fl_add(x, y) ==
    IF x = NaN \/ y = NaN THEN NaN
    ELSE IF x = Inf \/ y = Inf THEN Inf
    ELSE x + y

\* x < y: false when either side is nan
fl_lt(x, y) ==
    IF x = NaN \/ y = NaN THEN FALSE
    ELSE IF x = Inf THEN FALSE
    ELSE IF y = Inf THEN TRUE
    ELSE x < y

\* w * x for a finite weight w >= 0
fl_scale(w, x) ==
    IF x = NaN THEN NaN
    ELSE IF x = Inf THEN (IF w = 0 THEN NaN ELSE Inf)
    ELSE w * x

\* Milliseconds in the unit of the model.
Ms(x) == x * 100

\* A stage of a job that names no formats.
Stage(id, size_mb, c, m, v) ==
    [id |-> id, size_mb |-> size_mb,
     resources |-> [cpu_cores |-> c, mem_gb |-> m, gpu_vram_gb |-> v],
     allowed_formats |-> {}, disallowed_formats |-> {}]

\* A stage of one core and one gigabyte that names formats.
FormatStage(id, allowed, disallowed) ==
    [Stage(id, 10, 1, 1, 0) EXCEPT
        !.allowed_formats = allowed, !.disallowed_formats = disallowed]

\* node.get("formats_supported"): the list of the node's descriptor, which
\* no operation of the store changes.
formats_supported(node) == NodeFiles[node.name].formats_supported

\* CostModel._node_cpu_units: caps.cpu_units after the thermal derate.
_node_cpu_units(node) ==
    Max(0, (node.caps.cpu_units * (100 - clamp(node.dyn.thermal_derate, 0, 100))) \div 100)

\* CostModel._stage_base_work, in ms (no io_bound hint).
_stage_base_work(stage) ==
    Max(15, stage.size_mb * 2 + stage.resources.cpu_cores * 120)

\* CostModel.compute_time_ms.  The time is divided by max(1.0, accel), and
\* _accel_multiplier is above 1 only for a node that supports cuda or npu:
\* the nodes here support native and wasm, so the divisor is 1.
compute_time_ms(stage, node) ==
    IF node.dyn.down THEN Inf
    ELSE LET cpu_units == _node_cpu_units(node)
         IN  IF cpu_units <= 0 THEN Inf
             ELSE Max(Ms(15),
                      (Ms(_stage_base_work(stage)) * 10) \div Max(10, cpu_units))

\* CostModel._effective_link_metrics: the link entry under the canonical key
\* of the two names, or the defaults when the store holds no such entry.
_effective_link_metrics(links, a, b) ==
    LET k == link_key(Str(a), Str(b))
    IN  IF k \in DOMAIN links
        THEN LET eff == _effective_link(links[k])
             IN  [speed_gbps |-> eff.speed_gbps, rtt_ms |-> eff.rtt_ms,
                  jitter_ms |-> eff.jitter_ms, loss_pct |-> eff.loss_pct,
                  down |-> eff.down]
        ELSE [speed_gbps |-> 1, rtt_ms |-> 50, jitter_ms |-> 5,
              loss_pct |-> 0, down |-> FALSE]

\* CostModel.transfer_time_ms.  eff_mbps = speed * 1000 * 0.85 * loss_pen
\* with loss_pen = 1 - clamp(loss_pct / 100, 0, 0.30).
transfer_time_ms(links, src, dst, size_mb) ==
    IF size_mb <= 0 \/ src = dst THEN 0
    ELSE LET m == _effective_link_metrics(links, src, dst)
         IN  IF m.down THEN Inf
             ELSE LET eff_mbps == (m.speed_gbps * 850 * (100 - clamp(m.loss_pct, 0, 30))) \div 100
                  IN  (size_mb * 8 * 100000) \div Max(1, eff_mbps)
                        + m.rtt_ms * 10 + m.jitter_ms * 10

\* CostModel.risk_score times 10000 (default trust 0.8, no wear, no
\* crashes): 0.35 * 0.2 + 0.15 * clamp(thermal) + 0.10 * clamp(loss / 5).
risk_score(node, link_loss_pct) ==
    700 + 15 * clamp(node.dyn.thermal_derate, 0, 100)
        + 10 * clamp(link_loss_pct * 20, 0, 100)


\* CostModel.job_cost, the latency: the compute and transfer times of the
\* stages along the assignments; +inf when a stage has no assignment or one
\* of its times is +inf (the total is then not raised by later stages).
RECURSIVE job_latency(_, _, _, _, _, _, _)
job_latency(nodes, links, stages, assignments, i, prev_node, total_ms) ==
    IF i > Len(stages) THEN total_ms
    ELSE LET st == stages[i]
         IN  IF st.id \notin DOMAIN assignments
                \/ assignments[st.id] \notin DOMAIN nodes
             THEN job_latency(nodes, links, stages, assignments, i + 1, prev_node, Inf)
             ELSE LET node_name == assignments[st.id]
                      xfer_ms == IF prev_node = "" THEN 0
                                 ELSE transfer_time_ms(links, prev_node, node_name, st.size_mb)
                      comp_ms == compute_time_ms(st, nodes[node_name])
                  IN  job_latency(nodes, links, stages, assignments, i + 1, node_name,
                            IF IsFinite(comp_ms) /\ IsFinite(xfer_ms)
                            THEN fl_add(total_ms, comp_ms + xfer_ms)
                            ELSE Inf)

\* CostModel.job_cost: the latency, and one entry per stage of the job, in
\* job order, under the stage's id (none for a stage without id) with the
\* node of assignments.get(id); the metric keys of the entries are left out.
job_cost(nodes, links, job, assignments) ==
    [latency_ms |-> job_latency(nodes, links, job.stages, assignments, 1, "", 0),
     per_stage |-> [k \in 1..Len(job.stages) |->
                      [id |-> job.stages[k].id,
                       node |-> IF job.stages[k].id \in DOMAIN assignments
                                THEN assignments[job.stages[k].id] ELSE ""]]]

-----------------------------------------------------------------------------
(* The planners that scan the live node map: the /plan route of dt/api.py  *)
(* ("api", strategy greedy) and GreedyPlanner ("greedy", default cfg).     *)

\* The iteration order of nodes_by_name: the order of the sorted node files.
NodeOrder == <<"n1", "n2">>

\* Mutant of StageRequest: the request asks for one core more than the
\* stage needs.
StageRequest_one_more(node_name, stage) ==
    Request(node_name, stage.resources.cpu_cores + 1, stage.resources.mem_gb,
            stage.resources.gpu_vram_gb)

\* The request a planner builds from the resources of a stage.
StageRequest(node_name, stage) ==
    Request(node_name, stage.resources.cpu_cores, stage.resources.mem_gb,
            stage.resources.gpu_vram_gb)

\* _supports_formats of dt/api.py and of dt/policy/greedy.py.
_supports_formats(node, stage) ==
    LET allowed == stage.allowed_formats
        disallowed == stage.disallowed_formats
        fmts == formats_supported(node)
    IN  IF disallowed \cap fmts # {} THEN FALSE
        ELSE IF allowed = {} THEN TRUE
        ELSE fmts \cap allowed # {}

\* DEFAULT_CFG of dt/policy/greedy.py (weights as in _score_candidate below).
DEFAULT_CFG ==
    [risk_weight |-> 10, energy_weight |-> 0, prefer_locality_bonus_ms |-> 0,
     require_format_match |-> FALSE]

\* _fits of dt/policy/greedy.py: not down and enough free capacity.
_fits(node, stage) ==
    IF node.dyn.down THEN FALSE
    ELSE LET caps == _effective_caps(node)
         IN  /\ ~(caps.free_cpu_cores < stage.resources.cpu_cores)
             /\ ~(caps.free_mem_gb < stage.resources.mem_gb)
             /\ ~(caps.free_gpu_vram_gb < stage.resources.gpu_vram_gb)

\* _fits of dt/api.py: _fits above and _supports_formats.
api_fits(node, stage) == _fits(node, stage) /\ _supports_formats(node, stage)

\* The score of a candidate: compute + transfer + 10 * risk; GreedyPlanner
\* returns +inf first when require_format_match is set and the formats do
\* not match, and
\* adds energy_weight * energy with energy_weight = 0.0, and the energy is
\* +inf exactly when the compute time is.
_score_candidate(planner, nodes, links, stage, node_name, prev_node) ==
    LET node == nodes[node_name]
        comp_ms == compute_time_ms(stage, node)
        xfer_ms == IF prev_node = "" \/ prev_node = node_name THEN 0
                   ELSE transfer_time_ms(links, prev_node, node_name, stage.size_mb)
        energy == IF comp_ms = Inf THEN Inf ELSE 0
        base == fl_add(fl_add(comp_ms, xfer_ms), risk_score(node, 0) \div 10)
    IN  IF planner = "greedy"
        THEN IF DEFAULT_CFG.require_format_match /\ ~_supports_formats(node, stage)
             THEN Inf
             ELSE fl_add(base, fl_scale(0, energy))
        ELSE base

NoBest == [name |-> "", score |-> Inf]

\* Mutant of scan_candidates: a candidate replaces the best one when its
\* score is not greater, so the last node of a tie wins.
RECURSIVE scan_candidates_last_wins(_, _, _, _, _, _, _)
scan_candidates_last_wins(planner, nodes, links, stage, prev_node, i, best) ==
    IF i > Len(NodeOrder) THEN best
    ELSE LET name == NodeOrder[i]
         IN  IF \/ name \notin DOMAIN nodes
                \/ ~(IF planner = "api" THEN api_fits(nodes[name], stage)
                     ELSE _fits(nodes[name], stage))
             THEN scan_candidates_last_wins(planner, nodes, links, stage, prev_node,
                                            i + 1, best)
             ELSE LET sc == _score_candidate(planner, nodes, links, stage, name, prev_node)
                  IN  scan_candidates_last_wins(planner, nodes, links, stage, prev_node,
                            i + 1,
                            IF ~fl_lt(best.score, sc) /\ sc # Inf
                            THEN [name |-> name, score |-> sc] ELSE best)

\* The scan over the node map: a candidate replaces the best one when its
\* score is strictly smaller.
RECURSIVE scan_candidates(_, _, _, _, _, _, _)
scan_candidates(planner, nodes, links, stage, prev_node, i, best) ==
    IF i > Len(NodeOrder) THEN best
    ELSE LET name == NodeOrder[i]
         IN  IF \/ name \notin DOMAIN nodes
                \/ ~(IF planner = "api" THEN api_fits(nodes[name], stage)
                     ELSE _fits(nodes[name], stage))
             THEN scan_candidates(planner, nodes, links, stage, prev_node, i + 1, best)
             ELSE LET sc == _score_candidate(planner, nodes, links, stage, name, prev_node)
                  IN  scan_candidates(planner, nodes, links, stage, prev_node, i + 1,
                            IF fl_lt(sc, best.score)
                            THEN [name |-> name, score |-> sc] ELSE best)

_choose_node_for_stage(planner, nodes, links, stage, prev_node) ==
    scan_candidates(planner, nodes, links, stage, prev_node, 1, NoBest)

\* One entry of per_stage.
StageEntry(id, node, rid, infeasible, reason, score, fallbacks) ==
    [id |-> id, node |-> node, reservation_id |-> rid, infeasible |-> infeasible,
     reason |-> reason, score |-> score, fallbacks |-> fallbacks]

\* The locals of a planning call before the first stage.
PlanStart(nodes, seq) ==
    [nodes |-> nodes, seq |-> seq, prev_node |-> "", assignments |-> <<>>,
     reservations |-> <<>>, per_stage |-> <<>>, shadow_assignments |-> <<>>,
     infeasible |-> FALSE, error |-> ""]

\* Mutant of plan_stage_chosen: the reservation is made in a dry run too.
plan_stage_chosen_reserves_dry(acc, st, dry_run, chosen_node) ==
    LET no_node ==
            [acc EXCEPT
                !.per_stage = Append(@, StageEntry(st.id, "", None, TRUE,
                                        "no_feasible_node", Inf, <<>>)),
                !.infeasible = TRUE,
                !.prev_node = ""]
        reserved(best, r) ==
            IF ~dry_run /\ r.ret = None
            THEN [acc EXCEPT
                    !.per_stage = Append(@, StageEntry(st.id, best.name, None, TRUE,
                                            "reservation_failed", Inf, <<>>)),
                    !.infeasible = TRUE,
                    !.prev_node = ""]
            ELSE [acc EXCEPT
                    !.nodes = r.nodes,
                    !.seq = r.seq,
                    !.reservations = IF dry_run THEN @
                                     ELSE Append(@, [node |-> best.name,
                                                     reservation_id |-> r.ret]),
                    !.per_stage = Append(@, StageEntry(st.id, best.name,
                                            IF dry_run THEN None ELSE r.ret, FALSE,
                                            "", best.score, <<>>)),
                    !.assignments = @ @@ (st.id :> best.name),
                    !.prev_node = best.name]
        chosen(best) ==
            IF best.name = "" \/ best.score = Inf
            THEN no_node
            ELSE reserved(best, reserve(acc.nodes, acc.seq, StageRequest(best.name, st)))
    IN  chosen(chosen_node)

\* Mutant of plan_stage_chosen: a refused reservation leaves prev_node at
\* the node that was chosen.
plan_stage_chosen_keeps_prev(acc, st, dry_run, chosen_node) ==
    LET no_node ==
            [acc EXCEPT
                !.per_stage = Append(@, StageEntry(st.id, "", None, TRUE,
                                        "no_feasible_node", Inf, <<>>)),
                !.infeasible = TRUE,
                !.prev_node = ""]
        reserved(best, r) ==
            IF ~dry_run /\ r.ret = None
            THEN [acc EXCEPT
                    !.per_stage = Append(@, StageEntry(st.id, best.name, None, TRUE,
                                            "reservation_failed", Inf, <<>>)),
                    !.infeasible = TRUE,
                    !.prev_node = best.name]
            ELSE [acc EXCEPT
                    !.nodes = r.nodes,
                    !.seq = r.seq,
                    !.reservations = IF dry_run THEN @
                                     ELSE Append(@, [node |-> best.name,
                                                     reservation_id |-> r.ret]),
                    !.per_stage = Append(@, StageEntry(st.id, best.name, r.ret, FALSE,
                                            "", best.score, <<>>)),
                    !.assignments = @ @@ (st.id :> best.name),
                    !.prev_node = best.name]
        chosen(best) ==
            IF best.name = "" \/ best.score = Inf
            THEN no_node
            ELSE reserved(best,
                          IF dry_run
                          THEN [ret |-> None, nodes |-> acc.nodes, seq |-> acc.seq]
                          ELSE reserve(acc.nodes, acc.seq, StageRequest(best.name, st)))
    IN  chosen(chosen_node)

\* The body of the loop over the stages after the choice `best` is made:
\* the reservation unless dry_run, then the entry of per_stage.
plan_stage_chosen(acc, st, dry_run, chosen_node) ==
    LET no_node ==
            [acc EXCEPT
                !.per_stage = Append(@, StageEntry(st.id, "", None, TRUE,
                                        "no_feasible_node", Inf, <<>>)),
                !.infeasible = TRUE,
                !.prev_node = ""]
        reserved(best, r) ==
            IF ~dry_run /\ r.ret = None
            THEN [acc EXCEPT
                    !.per_stage = Append(@, StageEntry(st.id, best.name, None, TRUE,
                                            "reservation_failed", Inf, <<>>)),
                    !.infeasible = TRUE,
                    !.prev_node = ""]
            ELSE [acc EXCEPT
                    !.nodes = r.nodes,
                    !.seq = r.seq,
                    !.reservations = IF dry_run THEN @
                                     ELSE Append(@, [node |-> best.name,
                                                     reservation_id |-> r.ret]),
                    !.per_stage = Append(@, StageEntry(st.id, best.name, r.ret, FALSE,
                                            "", best.score, <<>>)),
                    !.assignments = @ @@ (st.id :> best.name),
                    !.prev_node = best.name]
        chosen(best) ==
            IF best.name = "" \/ best.score = Inf
            THEN no_node
            ELSE reserved(best,
                          IF dry_run
                          THEN [ret |-> None, nodes |-> acc.nodes, seq |-> acc.seq]
                          ELSE reserve(acc.nodes, acc.seq, StageRequest(best.name, st)))
    IN  chosen(chosen_node)

\* The body of the loop over the stages, for one stage.  A stage without
\* id: GreedyPlanner records an entry without id and goes on with
\* prev_node = none, plan() of dt/api.py returns an error.  Else the choice,
\* then the reservation unless dry_run, then the entry of per_stage.
plan_stage(planner, acc, links, st, dry_run) ==
    IF st.id = ""
    THEN IF planner = "api"
         THEN [acc EXCEPT !.error = "each stage must have an 'id'"]
         ELSE [acc EXCEPT
                !.per_stage = Append(@, StageEntry("", "", None, TRUE,
                                        "missing_stage_id", Inf, <<>>)),
                !.infeasible = TRUE,
                !.prev_node = ""]
    ELSE plan_stage_chosen(acc, st, dry_run,
            _choose_node_for_stage(planner, acc.nodes, links, st, acc.prev_node))

\* The loop over the stages; the error return of dt/api.py ends it.
RECURSIVE plan_stages(_, _, _, _, _, _)
plan_stages(planner, acc, links, stages, i, dry_run) ==
    IF i > Len(stages) \/ acc.error # "" THEN acc
    ELSE plan_stages(planner, plan_stage(planner, acc, links, stages[i], dry_run),
                     links, stages, i + 1, dry_run)

\* merge_stage_details(primary, cost_entries): the cost entries in their
\* order, each under the keys of the planner's entry of the same id when
\* there is one (the cost entry's id and node win), then the planner's
\* entries that have no id or whose id no cost entry has.
merge_stage_details(primary, cost_entries) ==
    LET ids == {primary[k].id : k \in 1..Len(primary)} \ {""}
        by_id(sid) == primary[CHOOSE k \in 1..Len(primary) :
                                /\ primary[k].id = sid
                                /\ \A j \in (k + 1)..Len(primary) : primary[j].id # sid]
        seen == {cost_entries[k].id : k \in 1..Len(cost_entries)} \cap ids
        kept(st) == st.id = "" \/ st.id \notin seen
    IN  [k \in 1..Len(cost_entries) |->
            IF cost_entries[k].id \in ids
            THEN [by_id(cost_entries[k].id) EXCEPT !.node = cost_entries[k].node]
            ELSE StageEntry(cost_entries[k].id, cost_entries[k].node, None, FALSE,
                            "", Inf, <<>>)]
        \o SelectSeq(primary, kept)

\* The response of a planning call, and the store it leaves: the error of
\* _err when the call ended on one, else the response with the merged
\* per_stage; `reserved` is what the call reserved in the store.
PlanResult(planner, acc, links, job, dry_run) ==
    IF acc.error # ""
    THEN [planner |-> planner, dry_run |-> dry_run,
          assignments |-> <<>>, reservations |-> <<>>, shadow_assignments |-> <<>>,
          per_stage |-> <<>>, infeasible |-> FALSE, error |-> acc.error,
          reserved |-> acc.reservations,
          nodes |-> acc.nodes, seq |-> acc.seq]
    ELSE [planner |-> planner, dry_run |-> dry_run,
          assignments |-> acc.assignments,
          reservations |-> acc.reservations,
          shadow_assignments |-> acc.shadow_assignments,
          per_stage |-> merge_stage_details(acc.per_stage,
                            job_cost(acc.nodes, links, job, acc.assignments).per_stage),
          infeasible |-> acc.infeasible
             \/ job_cost(acc.nodes, links, job, acc.assignments).latency_ms = Inf,
          error |-> "",
          reserved |-> acc.reservations,
          nodes |-> acc.nodes, seq |-> acc.seq]

\* plan() of dt/api.py and GreedyPlanner.plan_job.
plan_job(planner, nodes, links, seq, job, dry_run) ==
    PlanResult(planner,
               plan_stages(planner, PlanStart(nodes, seq), links, job.stages, 1, dry_run),
               links, job, dry_run)


-----------------------------------------------------------------------------
(* dt/policy/resilient.py: FederatedPlanner.  The node files carry no      *)
(* labels, so every node is in the federation "global".  Fractions are     *)
(* kept in ten-thousandths.                                                *)

DEFAULT_MODES ==
    [resilient |->
        [redundancy |-> 2, risk_weight |-> 220, load_weight |-> 380,
         spread_weight |-> 210, network_weight |-> 240,
         resilience_weight |-> 250, prefer_prev_bonus |-> 15],
     federated |->
        [redundancy |-> 3, risk_weight |-> 210, load_weight |-> 360,
         spread_weight |-> 260, network_weight |-> 230,
         resilience_weight |-> 240, prefer_prev_bonus |-> 10]]
    @@ ("network-aware" :>
        [redundancy |-> 1, risk_weight |-> 200, load_weight |-> 260,
         spread_weight |-> 140, network_weight |-> 300,
         resilience_weight |-> 190, prefer_prev_bonus |-> 12])

RECURSIVE SeqSum(_)
SeqSum(s) == IF s = <<>> THEN 0 ELSE Head(s) + SeqSum(Tail(s))

\* DTState.nodes_for_planner: a deep copy of every node with its effective
\* capacities added.
nodes_for_planner(nodes) ==
    [n \in DOMAIN nodes |->
        [name |-> n, caps |-> nodes[n].caps, dyn |-> nodes[n].dyn,
         effective |-> _effective_caps(nodes[n])]]

\* DTState.federations_overview, the entry of the one federation.
federations_overview(nodes) ==
    LET names == DOMAIN nodes
        rows == [n \in names |->
                    [total_cpu_cores |-> nodes[n].caps.max_cpu_cores,
                     total_mem_gb |-> nodes[n].caps.ram_gb,
                     total_gpu_vram_gb |-> nodes[n].caps.gpu_vram_gb,
                     free_cpu_cores |-> _effective_caps(nodes[n]).free_cpu_cores,
                     free_mem_gb |-> _effective_caps(nodes[n]).free_mem_gb,
                     free_gpu_vram_gb |-> _effective_caps(nodes[n]).free_gpu_vram_gb]]
        down_nodes == Cardinality({n \in names : nodes[n].dyn.down})
        hot_nodes == Cardinality({n \in names : nodes[n].dyn.thermal_derate >= 25})
    IN  [name |-> "global",
         total_cpu_cores |-> SumOver(rows, names, "total_cpu_cores"),
         free_cpu_cores |-> SumOver(rows, names, "free_cpu_cores"),
         total_mem_gb |-> SumOver(rows, names, "total_mem_gb"),
         free_mem_gb |-> SumOver(rows, names, "free_mem_gb"),
         total_gpu_vram_gb |-> SumOver(rows, names, "total_gpu_vram_gb"),
         free_gpu_vram_gb |-> SumOver(rows, names, "free_gpu_vram_gb"),
         down_fraction |-> IF names = {} THEN 0
                           ELSE (down_nodes * 10000) \div Cardinality(names),
         hot_fraction |-> IF names = {} THEN 0
                          ELSE (hot_nodes * 10000) \div Cardinality(names)]

\* FederatedPlanner._supports_formats: only allowed_formats is read.
fed_supports_formats(node, stage) ==
    IF stage.allowed_formats = {} THEN TRUE
    ELSE \E fmt \in stage.allowed_formats : fmt \in formats_supported(node)

\* FederatedPlanner._fits without the test of dyn.down.
fed_fits_ignores_down(node, stage) ==
    /\ ~(node.effective.free_cpu_cores < stage.resources.cpu_cores)
    /\ ~(node.effective.free_mem_gb < stage.resources.mem_gb)
    /\ ~(node.effective.free_gpu_vram_gb < stage.resources.gpu_vram_gb)
    /\ fed_supports_formats(node, stage)

\* FederatedPlanner._fits: on the copy of the node taken at the start of
\* the call and on the free amounts the planner projects.
fed_fits(node, stage) ==
    IF node.dyn.down THEN FALSE
    ELSE /\ ~(node.effective.free_cpu_cores < stage.resources.cpu_cores)
         /\ ~(node.effective.free_mem_gb < stage.resources.mem_gb)
         /\ ~(node.effective.free_gpu_vram_gb < stage.resources.gpu_vram_gb)
         /\ fed_supports_formats(node, stage)

\* clamp((total - max(0, free - need)) / total, 0, 1)
load_ratio(total, free, need) ==
    clamp(((total - Max(0, free - need)) * 10000) \div total, 0, 10000)

\* FederatedPlanner._projected_load
_projected_load(entry, need_cpu, need_mem, need_vram) ==
    LET lc == IF entry.total_cpu_cores > 0
              THEN <<load_ratio(entry.total_cpu_cores, entry.free_cpu_cores, need_cpu)>>
              ELSE <<>>
        lm == IF entry.total_mem_gb > 0
              THEN <<load_ratio(entry.total_mem_gb, entry.free_mem_gb, need_mem)>>
              ELSE <<>>
        lv == IF entry.total_gpu_vram_gb > 0
              THEN <<load_ratio(entry.total_gpu_vram_gb, entry.free_gpu_vram_gb, need_vram)>>
              ELSE <<>>
        loads == lc \o lm \o lv
    IN  IF loads = <<>> THEN 0 ELSE SeqSum(loads) \div Len(loads)

\* Mutant of _consume_resources: the projected free amounts stay as they are.
_consume_resources_keeps(free, stage) == free

\* FederatedPlanner._consume_resources on the projected free amounts.
_consume_resources(free, stage) ==
    [free EXCEPT
        !.free_cpu_cores = Max(0, @ - stage.resources.cpu_cores),
        !.free_mem_gb = Max(0, @ - stage.resources.mem_gb),
        !.free_gpu_vram_gb = Max(0, @ - stage.resources.gpu_vram_gb)]

\* FederatedPlanner._score_candidate, the score.
fed_score_candidate(view, links, stage, node_name, fed_entry, prev_node, used, cfg) ==
    LET node == view[node_name]
        res == stage.resources
        projected_load == _projected_load(fed_entry, res.cpu_cores, res.mem_gb,
                                          res.gpu_vram_gb)
        comp_ms == compute_time_ms(stage, node)
        local == prev_node = "" \/ prev_node = node_name
        xfer_ms == IF local THEN 0
                   ELSE transfer_time_ms(links, prev_node, node_name, stage.size_mb)
        link_metrics == IF local THEN [loss_pct |-> 0, down |-> FALSE]
                        ELSE _effective_link_metrics(links, prev_node, node_name)
        link_loss == link_metrics.loss_pct
        risk == risk_score(node, link_loss)
        load_penalty == (cfg.load_weight * projected_load) \div 100
        spread_penalty == Ms(cfg.spread_weight) * used
        network_penalty ==
            (IF link_metrics.down THEN Ms(cfg.network_weight) ELSE 0)
            + (Ms(cfg.network_weight) * clamp(link_loss * 10, 0, 100)) \div 100
        resilience_penalty ==
            (cfg.resilience_weight * (fed_entry.down_fraction + fed_entry.hot_fraction))
                \div 100
        risk_penalty == (cfg.risk_weight * risk) \div 100
        score == fl_add(fl_add(comp_ms, xfer_ms),
                        load_penalty + spread_penalty + network_penalty
                            + resilience_penalty + risk_penalty)
    IN  IF prev_node # "" /\ prev_node = node_name /\ IsFinite(score)
        THEN score - Ms(cfg.prefer_prev_bonus)
        ELSE score


\* The candidates of a stage in the order of the node map, with their scores.
RECURSIVE fed_candidates(_, _, _, _, _, _, _, _)
fed_candidates(view, links, stage, fed_entry, prev_node, used, cfg, i) ==
    IF i > Len(NodeOrder) THEN <<>>
    ELSE LET name == NodeOrder[i]
             rest == fed_candidates(view, links, stage, fed_entry, prev_node,
                                    used, cfg, i + 1)
         IN  IF name \notin DOMAIN view \/ ~fed_fits(view[name], stage)
             THEN rest
             ELSE <<[name |-> name,
                     score |-> fed_score_candidate(view, links, stage, name,
                                    fed_entry, prev_node, used, cfg)]>> \o rest

\* candidates.sort(key=score): ascending, equal scores keep their order.
RECURSIVE sort_by_score(_)
sort_by_score(c) ==
    IF c = <<>> THEN <<>>
    ELSE LET i == CHOOSE k \in 1..Len(c) :
                    /\ \A j \in 1..Len(c) : ~fl_lt(c[j].score, c[k].score)
                    /\ \A j \in 1..(k - 1) : fl_lt(c[k].score, c[j].score)
         IN  <<c[i]>> \o sort_by_score(SubSeq(c, 1, i - 1) \o SubSeq(c, i + 1, Len(c)))

\* Mutant of fallback_nodes: one fallback more than redundancy - 1.
fallback_nodes_one_more(candidates, cfg) ==
    LET last_index == Min(Len(candidates), 1 + Max(1, cfg.redundancy))
    IN  [k \in 1..(last_index - 1) |-> candidates[k + 1].name]

\* The names of the candidates after the best one, at most redundancy - 1.
fallback_nodes(candidates, cfg) ==
    LET target_fallbacks == Max(0, Max(1, cfg.redundancy) - 1)
        last_index == Min(Len(candidates), 1 + target_fallbacks)
    IN  [k \in 1..(last_index - 1) |-> candidates[k + 1].name]

\* The locals of FederatedPlanner.plan_job before the first stage.
FedPlanStart(nodes, seq) ==
    [nodes |-> nodes, seq |-> seq, prev_node |-> "", assignments |-> <<>>,
     reservations |-> <<>>, per_stage |-> <<>>, shadow_assignments |-> <<>>,
     infeasible |-> FALSE, error |-> "",
     view |-> nodes_for_planner(nodes),
     fed_entry |-> federations_overview(nodes),
     used_federations |-> 0]

\* The body of the loop over the stages of FederatedPlanner.plan_job: a
\* stage without id is passed over; else the
\* sorted candidates, the best one and the fallbacks, the reservation unless
\* dry_run, then the projection and the entry of per_stage.
fed_plan_stage(acc, links, st, dry_run, cfg) ==
    LET no_node ==
            [acc EXCEPT
                !.per_stage = Append(@, StageEntry(st.id, "", None, TRUE,
                                        "no_feasible_node", Inf, <<>>)),
                !.infeasible = TRUE,
                !.prev_node = ""]
        reserved(best, fallbacks, r) ==
            IF dry_run \/ r.ret # None
            THEN [acc EXCEPT
                    !.nodes = r.nodes,
                    !.seq = r.seq,
                    !.shadow_assignments = @ @@ (st.id :> fallbacks),
                    !.assignments = @ @@ (st.id :> best.name),
                    !.reservations = IF r.ret = None THEN @
                                     ELSE Append(@, [node |-> best.name,
                                                     reservation_id |-> r.ret]),
                    !.view = [@ EXCEPT ![best.name].effective =
                                   _consume_resources(@, st)],
                    !.fed_entry = _consume_resources(@, st),
                    !.used_federations = @ + 1,
                    !.prev_node = best.name,
                    !.per_stage = Append(@, StageEntry(st.id, best.name, r.ret, FALSE,
                                            "", best.score, fallbacks))]
            ELSE [acc EXCEPT
                    !.shadow_assignments = @ @@ (st.id :> fallbacks),
                    !.infeasible = TRUE,
                    !.prev_node = "",
                    !.per_stage = Append(@, StageEntry(st.id, "", None, TRUE,
                                            "", best.score, fallbacks))]
        sorted(candidates) ==
            IF candidates = <<>>
            THEN no_node
            ELSE reserved(candidates[1], fallback_nodes(candidates, cfg),
                          IF dry_run
                          THEN [ret |-> None, nodes |-> acc.nodes, seq |-> acc.seq]
                          ELSE reserve(acc.nodes, acc.seq,
                                       StageRequest(candidates[1].name, st)))
    IN  IF st.id = "" THEN acc
        ELSE sorted(sort_by_score(
                fed_candidates(acc.view, links, st, acc.fed_entry, acc.prev_node,
                               acc.used_federations, cfg, 1)))

RECURSIVE fed_plan_stages(_, _, _, _, _, _)
fed_plan_stages(acc, links, stages, i, dry_run, cfg) ==
    IF i > Len(stages) THEN acc
    ELSE fed_plan_stages(fed_plan_stage(acc, links, stages[i], dry_run, cfg),
                         links, stages, i + 1, dry_run, cfg)

\* FederatedPlanner.plan_job(job, dry_run, mode)
fed_plan_job(nodes, links, seq, job, dry_run, mode) ==
    PlanResult(mode,
               fed_plan_stages(FedPlanStart(nodes, seq), links, job.stages, 1,
                               dry_run, DEFAULT_MODES[mode]),
               links, job, dry_run)


-----------------------------------------------------------------------------
(* Planning calls beside observations, override merges and releases *)

\* Jobs: one stage that fits both nodes; a first stage only n1 has the
\* memory for, followed by a stage n1 has no cpu left for once the first is
\* reserved; one stage that asks for memory and for no cpu.
PlanJobs ==
    {[id |-> "j1", stages |-> <<Stage("s1", 10, 1, 1, 0)>>],
     [id |-> "j2", stages |-> <<Stage("s1", 10, 2, 2, 0), Stage("s2", 10, 1, 1, 0)>>],
     [id |-> "j3", stages |-> <<Stage("s1", 10, 0, 2, 0)>>]}

\* Planning calls: the one-stage job j1 as a dry run and reserving, the
\* other jobs reserving.
PlanCalls ==
    {[job |-> job, dry_run |-> dry_run] :
        job \in PlanJobs, dry_run \in BOOLEAN} \ 
    {[job |-> job, dry_run |-> TRUE] : job \in {j \in PlanJobs : j.id # "j1"}}

LivePlanners == {"api", "greedy"}

FedModes == DOMAIN DEFAULT_MODES

PlanPayloads ==
    {[type |-> "node", node |-> "n1", changes |-> [down |-> TRUE]],
     [type |-> "node", node |-> "n1", changes |-> [thermal_derate |-> 100]],
     [type |-> "link", key |-> K12, changes |-> [down |-> TRUE]]}

PlanFiles ==
    {[kind |-> "doc", doc |-> [nodes |-> [n2 |-> [down |-> TRUE]], links |-> <<>>]]}

PlanRequests == {Request("n1", 1, 1, 0)}

\* The ids of the reservations a planning call made, in order.
ReservedIds(reservations) ==
    [k \in 1..Len(reservations) |-> reservations[k].reservation_id]

\* What the caller of a planner gets back.
Response(r) ==
    [planner |-> r.planner, dry_run |-> r.dry_run,
     assignments |-> r.assignments, reservations |-> r.reservations,
     shadow_assignments |-> r.shadow_assignments, per_stage |-> r.per_stage,
     infeasible |-> r.infeasible, error |-> r.error]

Planned(r, job) ==
    /\ nodes_by_name' = r.nodes
    /\ _res_seq' = r.seq
    /\ plan' = Response(r)
    /\ issued' = issued \o ReservedIds(r.reserved)
    /\ last' = LastOp("plan", job.id, None, ~r.infeasible /\ r.error = "", FALSE, NoFree)
    /\ UNCHANGED <<links_by_key, _overrides, snap, overrides_json, chaos, loops, written,
                 planning, thread_vars>>

\* POST /plan (strategy greedy) and GreedyPlanner.plan_job
Plan(planner, job, dry_run) ==
    /\ _res_seq <= MaxSeq
    /\ Planned(plan_job(planner, nodes_by_name, links_by_key, _res_seq, job, dry_run), job)

\* FederatedPlanner.plan_job
PlanFederated(job, dry_run, mode) ==
    /\ _res_seq <= MaxSeq
    /\ Planned(fed_plan_job(nodes_by_name, links_by_key, _res_seq, job, dry_run, mode), job)

NextPlan ==
    \/ \E req \in PlanRequests : Reserve(req)
    \/ \E planner \in LivePlanners, c \in PlanCalls :
            Plan(planner, c.job, c.dry_run)
    \/ \E c \in PlanCalls, mode \in FedModes :
            PlanFederated(c.job, c.dry_run, mode)
    \/ \E n \in NodeNames, rid \in RidArgs : Release(n, rid)
    \/ \E p \in PlanPayloads : ApplyObservation(p)
    \/ \E file \in PlanFiles : LoadOverrides(file)

SpecPlan == Init /\ [][NextPlan]_vars

-----------------------------------------------------------------------------
(* C14 *)

\* The nodes a response assigns a stage to, lists as a fallback of a stage,
\* and holds a reservation on.
AssignedNodes(resp) == {resp.assignments[s] : s \in DOMAIN resp.assignments}

FallbackNodes(resp) ==
    UNION {{resp.shadow_assignments[s][k] : k \in DOMAIN resp.shadow_assignments[s]} :
                s \in DOMAIN resp.shadow_assignments}

ReservedNodes(resp) == {resp.reservations[k].node : k \in DOMAIN resp.reservations}

-----------------------------------------------------------------------------
(* C15 *)

\* C15: when the link between the node of the previous stage and another
\* node is down, the transfer time between them is +inf (every stage has
\* size_mb > 0) and no planning call places the next stage on that node or
\* reserves on it for that stage, whatever the other candidates are.
C15_DownLinkExcluded ==
    [][last'.op = "plan" =>
        \A k \in 2..Len(plan'.per_stage) :
            LET prev == plan'.per_stage[k - 1]
                cur == plan'.per_stage[k]
            IN  (/\ ~prev.infeasible
                 /\ cur.node # ""
                 /\ cur.node # prev.node
                 /\ _effective_link_metrics(links_by_key, prev.node, cur.node).down) =>
                    /\ transfer_time_ms(links_by_key, prev.node, cur.node, 10) = Inf
                    /\ cur.infeasible
                    /\ cur.reservation_id = None]_vars

-----------------------------------------------------------------------------
(* C16 *)

\* C16: a node whose thermal_derate is 1.0 has no cpu units left and an
\* infinite compute time for every stage, and no planning call assigns a
\* stage to it or reserves on it, stages that ask for no cpu included.
C16_FullDerateExcluded ==
    [][\A n \in NodeNames :
            nodes_by_name[n].dyn.thermal_derate >= 100 =>
                /\ _node_cpu_units(nodes_by_name[n]) = 0
                /\ _effective_caps(nodes_by_name[n]).free_cpu_cores = 0
                /\ \A job \in PlanJobs : \A k \in DOMAIN job.stages :
                        compute_time_ms(job.stages[k], nodes_by_name[n]) = Inf
                /\ last'.op = "plan" =>
                        n \notin AssignedNodes(plan') \cup ReservedNodes(plan')]_vars

-----------------------------------------------------------------------------
(* sim/chaos.py: the chaos events and the compiled schedule.  Times are    *)
(* whole virtual seconds.  An absent a, b, node, label, value or value_b   *)
(* (None) is the empty string; the modifiers an event carries are the      *)
(* record mods.  The kind f"__revert__::{kind}" of a synthetic revert is   *)
(* kept as the original kind beside revert = TRUE.                         *)

LINK_KINDS == {"link_degrade", "link_loss_spike", "link_down", "link_up"}

NODE_KINDS ==
    {"node_kill", "node_recover", "power_cap", "thermal_derate", "clock_skew",
     "packet_dup", "packet_reorder"}

GROUP_KINDS == {"zone_blackout", "zone_recover", "federation_partition"}

\* e.get(k), with None as the empty string
Get(e, k) == IF k \in DOMAIN e THEN e[k] ELSE ""

TargetFields == <<"a", "b", "node", "label", "value", "value_b">>

\* The modifier fields of ChaosEvent, in the order of the dataclass.
ModFields ==
    <<"speed_gbps", "rtt_ms", "jitter_ms", "loss_pct", "ecn", "power_cap_w",
      "thermal_derate", "skew_ms", "packet_dup", "packet_reorder">>

\* ChaosEvent(...) as collect_chaos_events builds it from a raw entry.
ChaosEvent(e) ==
    [at_s |-> e.at_s, kind |-> e.kind, revert |-> FALSE,
     duration_s |-> IF "duration_s" \in DOMAIN e THEN e.duration_s ELSE 0,
     a |-> Get(e, "a"), b |-> Get(e, "b"), node |-> Get(e, "node"),
     label |-> Get(e, "label"), value |-> Get(e, "value"),
     value_b |-> Get(e, "value_b"),
     mods |-> [f \in {ModFields[i] : i \in DOMAIN ModFields} \cap DOMAIN e |-> e[f]]]

\* Mutant of end_time: an end for every event, whatever its duration.
end_time_always(ce) == <<ce.at_s + ce.duration_s>>

\* ChaosEvent.end_time: at_s + duration_s when duration_s > 0, else None.
end_time(ce) ==
    IF ce.duration_s > 0 THEN <<ce.at_s + ce.duration_s>> ELSE None

\* The internal revert event of a bounded event.
revert_event(ce) ==
    [at_s |-> end_time(ce)[1], kind |-> ce.kind, revert |-> TRUE,
     duration_s |-> 0,
     a |-> ce.a, b |-> ce.b, node |-> ce.node,
     label |-> ce.label, value |-> ce.value, value_b |-> ce.value_b,
     mods |-> <<>>]

\* The events of the raw list in order, each bounded event of a supported
\* kind followed by its revert.
RECURSIVE expand_events(_)
expand_events(raw) ==
    IF raw = <<>> THEN <<>>
    ELSE LET ce == ChaosEvent(Head(raw))
         IN  (IF end_time(ce) # None
                    /\ ce.kind \in LINK_KINDS \cup NODE_KINDS \cup GROUP_KINDS
              THEN <<ce, revert_event(ce)>>
              ELSE <<ce>>)
             \o expand_events(Tail(raw))

\* The kind strings in ascending order ("_" sorts before the lower-case
\* letters, so every revert kind precedes every forward kind).
KindOrder ==
    <<"clock_skew", "federation_partition", "link_degrade", "link_down",
      "link_flap", "link_loss_spike", "link_up", "node_kill", "node_recover",
      "packet_dup", "packet_reorder", "power_cap", "thermal_derate",
      "zone_blackout", "zone_recover">>

KindRank(ev) ==
    (IF ev.revert THEN 0 ELSE Len(KindOrder))
        + (CHOOSE i \in DOMAIN KindOrder : KindOrder[i] = ev.kind)

\* The comparison of two values of one field: "lt", "eq", "gt", or "error"
\* where Python raises TypeError (None against a value).
cmp_int(x, y) == IF x = y THEN "eq" ELSE IF x < y THEN "lt" ELSE "gt"

cmp_optstr(x, y) ==
    IF x = y THEN "eq"
    ELSE IF x = "" \/ y = "" THEN "error"
    ELSE IF StrLess(Str(x), Str(y)) THEN "lt" ELSE "gt"

RECURSIVE cmp_targets(_, _, _)
cmp_targets(x, y, i) ==
    IF i > Len(TargetFields) THEN "eq"
    ELSE LET c == cmp_optstr(x[TargetFields[i]], y[TargetFields[i]])
         IN  IF c = "eq" THEN cmp_targets(x, y, i + 1) ELSE c

RECURSIVE cmp_mods(_, _, _)
cmp_mods(xm, ym, i) ==
    IF i > Len(ModFields) THEN "eq"
    ELSE LET f == ModFields[i]
         IN  IF f \notin DOMAIN xm /\ f \notin DOMAIN ym THEN cmp_mods(xm, ym, i + 1)
             ELSE IF f \notin DOMAIN xm \/ f \notin DOMAIN ym THEN "error"
             ELSE IF xm[f] = ym[f] THEN cmp_mods(xm, ym, i + 1)
             ELSE IF f = "ecn" THEN (IF ym[f] THEN "lt" ELSE "gt")
             ELSE cmp_int(xm[f], ym[f])

\* The order dataclass(order=True) gives: the tuples (sort_index, at_s,
\* kind, duration_s, a, b, node, label, value, value_b, modifiers...) are
\* compared at their first differing field.
cmp_events(x, y) ==
    IF x.at_s # y.at_s THEN cmp_int(x.at_s, y.at_s)
    ELSE IF KindRank(x) # KindRank(y) THEN cmp_int(KindRank(x), KindRank(y))
    ELSE IF x.duration_s # y.duration_s THEN cmp_int(x.duration_s, y.duration_s)
    ELSE IF cmp_targets(x, y, 1) # "eq" THEN cmp_targets(x, y, 1)
    ELSE cmp_mods(x.mods, y.mods, 1)

\* events.sort(): stable and ascending; [raised |-> TRUE] when a comparison
\* it makes raises.  An element is inserted after the last element of the
\* sorted part that is not greater than it.
RECURSIVE insert_event(_, _, _)
insert_event(sorted, ev, i) ==
    IF i = 0 THEN [raised |-> FALSE, events |-> <<ev>> \o sorted]
    ELSE LET c == cmp_events(ev, sorted[i])
         IN  IF c = "error" THEN [raised |-> TRUE, events |-> <<>>]
             ELSE IF c = "lt" THEN insert_event(sorted, ev, i - 1)
             ELSE [raised |-> FALSE,
                   events |-> SubSeq(sorted, 1, i) \o <<ev>>
                                \o SubSeq(sorted, i + 1, Len(sorted))]

RECURSIVE sort_events(_, _)
sort_events(acc, rest) ==
    IF acc.raised \/ rest = <<>> THEN acc
    ELSE sort_events(insert_event(acc.events, Head(rest), Len(acc.events)), Tail(rest))

\* collect_chaos_events(topology, scenario) on the raw events of the
\* topology and the scenario.
collect_chaos_events(raw) ==
    sort_events([raised |-> FALSE, events |-> <<>>], expand_events(raw))

-----------------------------------------------------------------------------
(* sim/chaos.py: OverridesStore.  A call is a record [op, section, key,    *)
(* changes] or [op, section, key, fields]; the store's state is the        *)
(* document it writes to overrides.json after every call.                  *)

\* m without the keys ks
Without(m, ks) == [k \in DOMAIN m \ ks |-> m[k]]

LinkApply(a, b, changes) ==
    [op |-> "apply", section |-> "links", key |-> link_key(Str(a), Str(b)),
     changes |-> changes]

LinkRevert(a, b, fields) ==
    [op |-> "revert", section |-> "links", key |-> link_key(Str(a), Str(b)),
     fields |-> fields]

NodeApply(node, changes) ==
    [op |-> "apply", section |-> "nodes", key |-> node, changes |-> changes]

NodeRevert(node, fields) ==
    [op |-> "revert", section |-> "nodes", key |-> node, fields |-> fields]

\* link_apply / node_apply: cur = state[section].get(key, {});
\* cur.update(changes); state[section][key] = cur
store_apply(entries, c) ==
    LET cur == IF c.key \in DOMAIN entries THEN entries[c.key] ELSE <<>>
    IN  (c.key :> (c.changes @@ cur)) @@ entries

\* link_revert / node_revert: the fields are deleted from the entry, and an
\* entry left empty is removed.
store_revert(entries, c) ==
    LET cur == IF c.key \in DOMAIN entries THEN entries[c.key] ELSE <<>>
        left == Without(cur, c.fields)
    IN  IF DOMAIN left # {}
        THEN (c.key :> left) @@ entries
        ELSE Without(entries, {c.key})

store_call(state, c) ==
    [state EXCEPT ![c.section] =
        IF c.op = "apply" THEN store_apply(@, c) ELSE store_revert(@, c)]

RECURSIVE store_calls(_, _)
store_calls(state, calls) ==
    IF calls = <<>> THEN state
    ELSE store_calls(store_call(state, Head(calls)), Tail(calls))

\* The payload _post_dt sends to the /observe route for a call.
post_payload(c) ==
    IF c.section = "links"
    THEN IF c.op = "apply"
         THEN [type |-> "link", key |-> c.key, changes |-> c.changes]
         ELSE [type |-> "link", key |-> c.key, fields |-> c.fields]
    ELSE IF c.op = "apply"
         THEN [type |-> "node", node |-> c.key, changes |-> c.changes]
         ELSE [type |-> "node", node |-> c.key, fields |-> c.fields]

\* The store after /observe has handled the payloads of the calls in order
\* (an exception inside apply_observation is answered with an error and the
\* engine goes on).
RECURSIVE post_dt(_, _, _)
post_dt(nodes, links, calls) ==
    IF calls = <<>> THEN [nodes |-> nodes, links |-> links]
    ELSE LET r == apply_observation(nodes, links, post_payload(Head(calls)))
         IN  post_dt(r.nodes, r.links, Tail(calls))

-----------------------------------------------------------------------------
(* sim/chaos.py: ChaosEngine.  apply_event is the sequence of calls it     *)
(* makes on the OverridesStore.  Numeric fields of the document are        *)
(* Some(v) as in the dyn slots; thermal_derate is in percent.              *)

\* ChaosEngine.label_index for node descriptors that put n1 in zone z1, n2
\* in zone z2 and both on site s1 (the federation label defaults to the
\* zone).
label_index ==
    [zone |-> [z1 |-> <<"n1">>, z2 |-> <<"n2">>],
     site |-> [s1 |-> <<"n1", "n2">>],
     federation |-> [z1 |-> <<"n1">>, z2 |-> <<"n2">>]]

_nodes_for(label, value) ==
    IF label = "" \/ value = "" THEN <<>>
    ELSE IF label \in DOMAIN label_index /\ value \in DOMAIN label_index[label]
    THEN label_index[label][value]
    ELSE <<>>

\* The link fields an event sets, out of `allowed`: speed, rtt and jitter
\* are floored at 0, loss_pct is clamped to 0..100, ecn is a boolean.
link_fields(ev, allowed) ==
    [f \in allowed \cap DOMAIN ev.mods |->
        IF f = "loss_pct" THEN Some(clamp(ev.mods[f], 0, 100))
        ELSE IF f = "ecn" THEN Some(ev.mods[f])
        ELSE Some(Max(0, ev.mods[f]))]

PartitionFields == {"speed_gbps", "rtt_ms", "jitter_ms", "loss_pct"}

DegradeFields == PartitionFields \cup {"ecn"}

\* ev.<field> if it is not None, else the default
ModOr(ev, f, default) == IF f \in DOMAIN ev.mods THEN ev.mods[f] ELSE default

_apply_zone_blackout(ev) ==
    LET nodes == _nodes_for(ev.label, ev.value)
    IN  [i \in DOMAIN nodes |-> NodeApply(nodes[i], [down |-> TRUE])]

_apply_zone_recover(ev) ==
    LET nodes == _nodes_for(ev.label, ev.value)
    IN  [i \in DOMAIN nodes |-> NodeRevert(nodes[i], {"down"})]

\* The pairs of group_a x group_b in the order of the nested loops.
Pairs(group_a, group_b) ==
    [i \in 1..(Len(group_a) * Len(group_b)) |->
        <<group_a[((i - 1) \div Len(group_b)) + 1],
          group_b[((i - 1) % Len(group_b)) + 1]>>]

_apply_federation_partition(ev) ==
    LET label == IF ev.label = "" THEN "federation" ELSE ev.label
        group_a == _nodes_for(label, ev.value)
        group_b == _nodes_for(label, ev.value_b)
        given == link_fields(ev, PartitionFields)
        fields == IF DOMAIN given = {}
                  THEN [loss_pct |-> Some(12), rtt_ms |-> Some(35)]
                  ELSE given
        pairs == Pairs(group_a, group_b)
    IN  IF ev.value = "" \/ ev.value_b = "" \/ group_a = <<>> \/ group_b = <<>>
        THEN <<>>
        ELSE [i \in DOMAIN pairs |-> LinkApply(pairs[i][1], pairs[i][2], fields)]
             \o <<LinkApply(ev.value, ev.value_b, fields)>>

_revert_federation_partition(ev) ==
    LET label == IF ev.label = "" THEN "federation" ELSE ev.label
        pairs == Pairs(_nodes_for(label, ev.value), _nodes_for(label, ev.value_b))
        fields == {"speed_gbps", "rtt_ms", "jitter_ms", "loss_pct", "down"}
    IN  IF ev.value = "" \/ ev.value_b = ""
        THEN <<>>
        ELSE [i \in DOMAIN pairs |-> LinkRevert(pairs[i][1], pairs[i][2], fields)]
             \o <<LinkRevert(ev.value, ev.value_b, fields)>>

\* ChaosEngine._revert_for(original_kind, ev)
_revert_for(ev) ==
    IF ev.kind \in LINK_KINDS /\ ev.a # "" /\ ev.b # ""
    THEN IF ev.kind = "link_down" THEN <<LinkRevert(ev.a, ev.b, {"down"})>>
         ELSE IF ev.kind = "link_loss_spike" THEN <<LinkRevert(ev.a, ev.b, {"loss_pct"})>>
         ELSE IF ev.kind = "link_degrade"
         THEN <<LinkRevert(ev.a, ev.b,
                    {"speed_gbps", "rtt_ms", "jitter_ms", "loss_pct", "ecn"})>>
         ELSE <<>>
    ELSE IF ev.kind \in NODE_KINDS /\ ev.node # ""
    THEN IF ev.kind = "node_kill" THEN <<NodeRevert(ev.node, {"down"})>>
         ELSE IF ev.kind = "power_cap" THEN <<NodeRevert(ev.node, {"power_cap_w"})>>
         ELSE IF ev.kind = "thermal_derate" THEN <<NodeRevert(ev.node, {"thermal_derate"})>>
         ELSE IF ev.kind = "clock_skew" THEN <<NodeRevert(ev.node, {"clock_skew_ms"})>>
         ELSE IF ev.kind = "packet_dup" THEN <<NodeRevert(ev.node, {"packet_dup"})>>
         ELSE IF ev.kind = "packet_reorder" THEN <<NodeRevert(ev.node, {"packet_reorder"})>>
         ELSE <<>>
    ELSE IF ev.kind = "zone_blackout" THEN _apply_zone_recover(ev)
    ELSE IF ev.kind = "federation_partition" THEN _revert_federation_partition(ev)
    ELSE <<>>

\* The forward branch of apply_event for the link kinds.
apply_link_event(ev) ==
    IF ev.a = "" \/ ev.b = "" THEN <<>>
    ELSE IF ev.kind = "link_down" THEN <<LinkApply(ev.a, ev.b, [down |-> TRUE])>>
    ELSE IF ev.kind = "link_up" THEN <<LinkRevert(ev.a, ev.b, {"down"})>>
    ELSE IF ev.kind = "link_loss_spike"
    THEN <<LinkApply(ev.a, ev.b, link_fields(ev, {"loss_pct"}))>>
    ELSE <<LinkApply(ev.a, ev.b, link_fields(ev, DegradeFields))>>

\* The forward branch of apply_event for the node kinds.
apply_node_event(ev) ==
    IF ev.node = "" THEN <<>>
    ELSE IF ev.kind = "node_kill" THEN <<NodeApply(ev.node, [down |-> TRUE])>>
    ELSE IF ev.kind = "node_recover" THEN <<NodeRevert(ev.node, {"down"})>>
    ELSE IF ev.kind = "power_cap"
    THEN <<NodeApply(ev.node, [power_cap_w |-> Some(Max(0, ModOr(ev, "power_cap_w", 0)))])>>
    ELSE IF ev.kind = "thermal_derate"
    THEN <<NodeApply(ev.node,
                [thermal_derate |-> clamp(ModOr(ev, "thermal_derate", 20), 0, 100)])>>
    ELSE IF ev.kind = "clock_skew"
    THEN <<NodeApply(ev.node, [clock_skew_ms |-> Some(ModOr(ev, "skew_ms", 50))])>>
    ELSE IF ev.kind = "packet_dup"
    THEN <<NodeApply(ev.node,
                [packet_dup |-> Some(clamp(ModOr(ev, "packet_dup", 10), 0, 100))])>>
    ELSE <<NodeApply(ev.node,
                [packet_reorder |-> Some(clamp(ModOr(ev, "packet_reorder", 10), 0, 100))])>>

\* ChaosEngine.apply_event(ev)
apply_event(ev) ==
    IF ev.revert THEN _revert_for(ev)
    ELSE IF ev.kind \in LINK_KINDS THEN apply_link_event(ev)
    ELSE IF ev.kind \in NODE_KINDS THEN apply_node_event(ev)
    ELSE IF ev.kind = "zone_blackout" THEN _apply_zone_blackout(ev)
    ELSE IF ev.kind = "zone_recover" THEN _apply_zone_recover(ev)
    ELSE IF ev.kind = "federation_partition" THEN _apply_federation_partition(ev)
    ELSE <<>>

-----------------------------------------------------------------------------
(* A chaos run beside the store: main() of sim/chaos.py compiles the       *)
(* schedule and the engine applies its events in order, writing            *)
(* overrides.json and, when a DT endpoint is given, posting to /observe;   *)
(* the store's watcher reads the file when it has changed.                 *)

\* A zone blackout that lasts two seconds.
BlackoutRaw ==
    <<[kind |-> "zone_blackout", at_s |-> 1, duration_s |-> 2,
       label |-> "site", value |-> "s1"]>>

\* Two overlapping kills of n1: the second ends while the first is active.
KillsRaw ==
    <<[kind |-> "node_kill", at_s |-> 1, duration_s |-> 3, node |-> "n1"],
      [kind |-> "node_kill", at_s |-> 2, duration_s |-> 1, node |-> "n1"]>>

\* A bounded degrade that sets only the speed, listed before the unbounded
\* loss spike that precedes it in time.
LinksRaw ==
    <<[kind |-> "link_degrade", at_s |-> 2, duration_s |-> 2,
       a |-> "n1", b |-> "n2", speed_gbps |-> 2],
      [kind |-> "link_loss_spike", at_s |-> 1, a |-> "n2", b |-> "n1",
       loss_pct |-> 12]>>

\* An unbounded link_down, then a bounded partition of the two zones.
PartitionRaw ==
    <<[kind |-> "link_down", at_s |-> 1, a |-> "n1", b |-> "n2"],
      [kind |-> "federation_partition", at_s |-> 2, duration_s |-> 1,
       label |-> "zone", value |-> "z1", value_b |-> "z2"]>>

\* Reverts that fall on the same second, a kind the engine does not know,
\* a zero and a negative duration.
TiesRaw ==
    <<[kind |-> "thermal_derate", at_s |-> 2, duration_s |-> 1, node |-> "n1",
       thermal_derate |-> 50],
      [kind |-> "power_cap", at_s |-> 1, duration_s |-> 2, node |-> "n2",
       power_cap_w |-> 90],
      [kind |-> "link_flap", at_s |-> 1, duration_s |-> 1, a |-> "n1", b |-> "n2"],
      [kind |-> "node_recover", at_s |-> 3, duration_s |-> 0, node |-> "n1"],
      [kind |-> "clock_skew", at_s |-> 0, duration_s |-> -1, node |-> "n2"]>>

\* Two events that tie up to a field only one of them carries.
UnorderedRaw ==
    <<[kind |-> "link_down", at_s |-> 1, a |-> "n1", b |-> "n2"],
      [kind |-> "link_down", at_s |-> 1]>>

RawSchedules ==
    {BlackoutRaw, KillsRaw, LinksRaw, PartitionRaw, TiesRaw, UnorderedRaw}

\* main(): schedule = collect_chaos_events(topo, scenario), then the engine
\* is built on the store, with or without a DT endpoint.
Collect(raw, dt_endpoint) ==
    /\ ~chaos.started
    /\ LET r == collect_chaos_events(raw)
       IN  chaos' = [started |-> TRUE, raised |-> r.raised,
                     dt_endpoint |-> dt_endpoint, raw |-> raw,
                     schedule |-> r.events, idx |-> 1]
    /\ UNCHANGED <<store_vars, snap, plan, written, planning, overrides_json, loops, issued, last, thread_vars>>

\* ChaosEngine.run, one iteration whose event is due: apply_event and
\* idx += 1.
ApplyEvent ==
    /\ chaos.started
    /\ chaos.idx <= Len(chaos.schedule)
    /\ LET calls == apply_event(chaos.schedule[chaos.idx])
           r == IF chaos.dt_endpoint
                THEN post_dt(nodes_by_name, links_by_key, calls)
                ELSE [nodes |-> nodes_by_name, links |-> links_by_key]
       IN  /\ overrides_json' = store_calls(overrides_json, calls)
           /\ nodes_by_name' = r.nodes
           /\ links_by_key' = r.links
    /\ chaos' = [chaos EXCEPT !.idx = @ + 1]
    /\ last' = LastOp("chaos", "", None, TRUE, FALSE, NoFree)
    /\ UNCHANGED <<_overrides, _res_seq, snap, plan, written, planning, loops, issued, thread_vars>>

\* One watcher iteration that finds overrides.json changed since it was
\* last read.
Watch ==
    /\ _overrides # overrides_json
    /\ LoadOverrides([kind |-> "doc", doc |-> overrides_json])

NextChaos ==
    \/ \E raw \in RawSchedules, dt_endpoint \in BOOLEAN : Collect(raw, dt_endpoint)
    \/ ApplyEvent
    \/ Watch

SpecChaos == Init /\ [][NextChaos]_vars

-----------------------------------------------------------------------------
(* C17 *)

\* The bounded events of a supported kind among the inputs.
BoundedEvents ==
    {ce \in UNION {{ChaosEvent(raw[i]) : i \in DOMAIN raw} : raw \in RawSchedules} :
        /\ ce.duration_s > 0
        /\ ce.kind \in LINK_KINDS \cup NODE_KINDS \cup GROUP_KINDS}

\* The fields of the document a sequence of store calls writes or deletes.
Affected(calls) ==
    UNION {{<<calls[i].section, calls[i].key, f>> :
                f \in (IF calls[i].op = "apply" THEN DOMAIN calls[i].changes
                       ELSE calls[i].fields)} : i \in DOMAIN calls}

\* The value of a field of the document: <<v>>, or <<>> when it is absent.
Lookup(state, t) ==
    IF t[2] \in DOMAIN state[t[1]] /\ t[3] \in DOMAIN state[t[1]][t[2]]
    THEN <<state[t[1]][t[2]][t[3]]>>
    ELSE <<>>

\* C17: whatever the override document holds, applying a bounded event and
\* then its synthetic revert leaves every field the event wrote with the
\* value, or the absence, it had before the event.
C17_RevertRestoresPriorValues ==
    \A ce \in BoundedEvents :
        LET forward == apply_event(ce)
            applied == store_calls(overrides_json, forward)
            reverted == store_calls(applied, apply_event(revert_event(ce)))
        IN  \A t \in Affected(forward) :
                Lookup(reverted, t) = Lookup(overrides_json, t)

-----------------------------------------------------------------------------
(* C19 *)

\* Every field the document holds, as <<section, key, field>>.
FieldsOf(state) ==
    UNION {UNION {{<<section, k, f>> : f \in DOMAIN state[section][k]} :
                        k \in DOMAIN state[section]} :
                section \in {"nodes", "links"}}

\* C19: the synthetic revert of a bounded event deletes from the document
\* the fields its forward event wrote and leaves every other field of every
\* entry with its value.
C19_RevertTouchesOwnFieldsOnly ==
    \A ce \in BoundedEvents :
        LET forward == apply_event(ce)
            applied == store_calls(overrides_json, forward)
            reverted == store_calls(applied, apply_event(revert_event(ce)))
        IN  \A t \in FieldsOf(applied) :
                IF t \in Affected(forward)
                THEN Lookup(reverted, t) = <<>>
                ELSE Lookup(reverted, t) = Lookup(applied, t)

-----------------------------------------------------------------------------
(* C18 *)

\* The store has taken in what the engine wrote last: the watcher has read
\* the current document, or the engine posts every call to /observe.
Ingested == _overrides = overrides_json \/ chaos.dt_endpoint

\* C18: once the zone blackout and its synthetic revert have both been
\* applied and the store has taken in the changes, every node of the zone
\* has dyn.down = false in the store and reserve() no longer refuses it.
C18_ZoneRecoversInStore ==
    (/\ chaos.raw = BlackoutRaw
     /\ chaos.idx > Len(chaos.schedule)
     /\ Ingested) =>
        \A i \in DOMAIN _nodes_for("site", "s1") :
            LET n == _nodes_for("site", "s1")[i]
            IN  /\ ~nodes_by_name[n].dyn.down
                /\ ~reserve_refuses(nodes_by_name, Request(n, 0, 0, 0))

-----------------------------------------------------------------------------
(* C20 *)

\* A raw entry with duration_s > 0.
Bounded(e) == "duration_s" \in DOMAIN e /\ e.duration_s > 0

\* ev is a synthetic revert for the raw entry e: at at_s + duration_s, of
\* the same kind, with the same target keys.
IsRevertOf(ev, e) ==
    /\ ev.revert
    /\ ev.kind = e.kind
    /\ ev.at_s = e.at_s + e.duration_s
    /\ \A i \in DOMAIN TargetFields : ev[TargetFields[i]] = Get(e, TargetFields[i])

\* The schedule s compiled from raw is sorted by at_s, holds one revert per
\* bounded entry whose kind is in kinds, after the forward event of that
\* entry, and holds no other revert.
RevertPerBoundedEvent(raw, s, kinds) ==
    LET bounded == {i \in DOMAIN raw : Bounded(raw[i]) /\ raw[i].kind \in kinds}
    IN  /\ \A p, q \in DOMAIN s : p < q => s[p].at_s <= s[q].at_s
        /\ \A i \in bounded :
            /\ Cardinality({q \in DOMAIN s : IsRevertOf(s[q], raw[i])})
                 = Cardinality({j \in bounded : IsRevertOf(revert_event(ChaosEvent(raw[j])), raw[i])})
            /\ \E p, q \in DOMAIN s :
                /\ p < q
                /\ s[p] = ChaosEvent(raw[i])
                /\ IsRevertOf(s[q], raw[i])
        /\ Cardinality({q \in DOMAIN s : s[q].revert}) = Cardinality(bounded)
        /\ Cardinality({q \in DOMAIN s : ~s[q].revert}) = Len(raw)

\* C20 as stated: the compiled schedule is sorted by non-decreasing at_s
\* and holds, for every input event with duration_s > 0, exactly one revert
\* at at_s + duration_s with the same target keys, after its forward
\* event; an event with duration_s absent or <= 0 gets none.
C20_RevertForEveryBoundedEvent ==
    (chaos.started /\ ~chaos.raised) =>
        RevertPerBoundedEvent(chaos.raw, chaos.schedule,
                              {chaos.raw[i].kind : i \in DOMAIN chaos.raw})

\* C20, amended: the compiled schedule is sorted by non-decreasing at_s and
\* holds exactly one revert, after the forward event, for every input event
\* with duration_s > 0 whose kind is a link, node or group kind; every
\* other input event gets no revert.
C20_RevertForBoundedSupportedEvent ==
    (chaos.started /\ ~chaos.raised) =>
        RevertPerBoundedEvent(chaos.raw, chaos.schedule,
                              LINK_KINDS \cup NODE_KINDS \cup GROUP_KINDS)

\* A schedule was compiled from entries given out of time order, some
\* bounded and some with a zero or negative duration: it holds reverts and
\* does not start with the first raw entry.
C20_Witness ==
    /\ chaos.started
    /\ ~chaos.raised
    /\ chaos.raw = TiesRaw
    /\ \E q \in DOMAIN chaos.schedule : chaos.schedule[q].revert
    /\ chaos.schedule[1] # ChaosEvent(chaos.raw[1])
    /\ \E i \in DOMAIN chaos.raw : ~Bounded(chaos.raw[i])

-----------------------------------------------------------------------------
(* The two background loops: ChaosEngine.run of sim/chaos.py, which main() *)
(* calls on the compiled schedule, and DTState._watch_loop of dt/state.py. *)
(* Each loop is two steps, the test of its while condition and its body,   *)
(* so that a signal can arrive between them.                               *)

\* Virtual time is kept in instants: the instant 2*s is "s seconds", the
\* instant 2*s - 1 is a time less than s seconds and at most 1e-6 below it.
Instant(at_s) == 2 * at_s

\* Time is not advanced beyond this instant.
MaxVt == 8

\* Iterations of the watcher that raise.
MaxWatchRaises == 1

\* vt_s + 1e-6 >= ev.at_s
due(vt, ev) == vt + 1 >= Instant(ev.at_s)

\* A degrade whose rtt_ms is a word, then a kill.
BadRaw ==
    <<[kind |-> "link_degrade", at_s |-> 1, a |-> "n1", b |-> "n2",
       rtt_ms |-> "slow"],
      [kind |-> "node_kill", at_s |-> 2, node |-> "n1"]>>

RunRaws == {<<>>, KillsRaw, BadRaw}

StartTimes == {0, 2}

\* apply_event raises on its own: max()/min() of a number and a str is a
\* TypeError.  (bool(ev.ecn) and clock_skew's skew_ms accept any value.)
event_raises(ev) ==
    /\ ~ev.revert
    /\ \E f \in DOMAIN ev.mods :
        /\ ev.mods[f] \in STRING
        /\ \/ ev.kind = "link_degrade" /\ f \in {"speed_gbps", "rtt_ms", "jitter_ms", "loss_pct"}
           \/ ev.kind = "link_loss_spike" /\ f = "loss_pct"
           \/ ev.kind = "power_cap" /\ f = "power_cap_w"
           \/ ev.kind \in {"thermal_derate", "packet_dup", "packet_reorder"} /\ f = ev.kind
    /\ IF ev.kind \in LINK_KINDS THEN ev.a # "" /\ ev.b # "" ELSE ev.node # ""

\* main(): the schedule is compiled and engine.run(schedule) is entered.
\* run returns at once on an empty schedule; t0 is set so that virtual time
\* starts at start_time_s.
RunStart(raw, start_time_s) ==
    /\ loops.run = "idle"
    /\ ~chaos.started
    /\ LET r == collect_chaos_events(raw)
       IN  /\ chaos' = [started |-> TRUE, raised |-> r.raised,
                        dt_endpoint |-> FALSE, raw |-> raw,
                        schedule |-> r.events, idx |-> 1]
           /\ loops' = [loops EXCEPT
                          !.run = IF r.events = <<>> THEN "done" ELSE "test",
                          !.vt = Instant(start_time_s)]
    /\ UNCHANGED <<store_vars, snap, plan, written, planning, overrides_json, issued, last, thread_vars>>

\* Mutant of RunTest: the loop condition without the cancellation signal.
RunTest_ignores_stop ==
    /\ loops.run = "test"
    /\ loops' = [loops EXCEPT
                   !.run = IF chaos.idx <= Len(chaos.schedule) THEN "body" ELSE "done"]
    /\ UNCHANGED <<store_vars, snap, plan, written, planning, overrides_json, chaos, issued, last, thread_vars>>

\* while not self._stop.is_set() and idx < n
RunTest ==
    /\ loops.run = "test"
    /\ loops' = [loops EXCEPT
                   !.run = IF ~loops._stop /\ chaos.idx <= Len(chaos.schedule)
                           THEN "body" ELSE "done"]
    /\ UNCHANGED <<store_vars, snap, plan, written, planning, overrides_json, chaos, issued, last, thread_vars>>

\* The body of one iteration.  The event is applied when it is due, else
\* the loop sleeps 20 ms.  apply_event is not inside a try: when it raises
\* (a TypeError of the event, or _write failing on the first store call)
\* the exception leaves run and main.
RunBody(write_ok) ==
    /\ loops.run = "body"
    /\ LET ev == chaos.schedule[chaos.idx]
           applies == due(loops.vt, ev)
           calls == IF applies /\ ~event_raises(ev) THEN apply_event(ev) ELSE <<>>
           raises == applies /\ (event_raises(ev) \/ (calls # <<>> /\ ~write_ok))
       IN  /\ write_ok \/ raises
           /\ overrides_json' = IF raises THEN overrides_json
                                ELSE store_calls(overrides_json, calls)
           /\ chaos' = IF applies /\ ~raises
                       THEN [chaos EXCEPT !.idx = @ + 1] ELSE chaos
           /\ loops' = [loops EXCEPT
                          !.run = IF raises THEN "raised" ELSE "test",
                          !.raises = IF raises THEN @ + 1 ELSE @,
                          !.applied = IF applies /\ ~raises
                                      THEN Append(@, [idx |-> chaos.idx, vt |-> loops.vt])
                                      ELSE @,
                          !.late = IF applies /\ ~raises /\ loops._stop
                                   THEN @ + 1 ELSE @]
    /\ UNCHANGED <<store_vars, snap, plan, written, planning, issued, last, thread_vars>>

\* Real time passes while the loop runs.
Tick ==
    /\ loops.run \in {"test", "body"}
    /\ loops.vt < MaxVt
    /\ loops' = [loops EXCEPT !.vt = @ + 1]
    /\ UNCHANGED <<store_vars, snap, plan, written, planning, overrides_json, chaos, issued, last, thread_vars>>

\* ChaosEngine.stop(), from the signal handler of main().
StopEngine ==
    /\ loops.run \in {"test", "body"}
    /\ ~loops._stop
    /\ loops' = [loops EXCEPT !._stop = TRUE, !.stop_in_body = (loops.run = "body")]
    /\ UNCHANGED <<store_vars, snap, plan, written, planning, overrides_json, chaos, issued, last, thread_vars>>

\* while not self._stop_event.is_set()
WatchTest ==
    /\ loops.watch = "test"
    /\ loops' = [loops EXCEPT
                   !.watch = IF loops._stop_event THEN "exited" ELSE "body"]
    /\ UNCHANGED <<store_vars, snap, plan, written, planning, overrides_json, chaos, issued, last, thread_vars>>

\* One iteration of the watcher: _load_overrides_locked(apply_now=True),
\* which merges when the file has changed, inside try/except Exception, then
\* the wait.  An iteration that raises changes nothing.
WatchBody(outcome) ==
    /\ loops.watch = "body"
    /\ outcome = "raise" => loops.watch_raises < MaxWatchRaises
    /\ LET merges == outcome = "ok" /\ _overrides # overrides_json
           r == IF merges
                THEN _load_overrides_locked(_overrides, nodes_by_name, links_by_key,
                                            [kind |-> "doc", doc |-> overrides_json])
                ELSE [overrides |-> _overrides, nodes |-> nodes_by_name,
                      links |-> links_by_key]
       IN  /\ _overrides' = r.overrides
           /\ nodes_by_name' = r.nodes
           /\ links_by_key' = r.links
    /\ loops' = [loops EXCEPT
                   !.watch = "test",
                   !.watch_raises = IF outcome = "raise" THEN @ + 1 ELSE @,
                   !.watch_late = IF loops._stop_event THEN @ + 1 ELSE @]
    /\ UNCHANGED <<_res_seq, snap, plan, written, planning, overrides_json, chaos, issued, last, thread_vars>>

\* DTState.stop()
StopWatcher ==
    /\ ~loops._stop_event
    /\ loops.watch # "exited"
    /\ loops' = [loops EXCEPT !._stop_event = TRUE]
    /\ UNCHANGED <<store_vars, snap, plan, written, planning, overrides_json, chaos, issued, last, thread_vars>>

NextRun ==
    \/ \E raw \in RunRaws, start_time_s \in StartTimes : RunStart(raw, start_time_s)
    \/ RunTest
    \/ \E write_ok \in BOOLEAN : RunBody(write_ok)
    \/ Tick
    \/ StopEngine
    \/ WatchTest
    \/ \E outcome \in {"ok", "raise"} : WatchBody(outcome)
    \/ StopWatcher

SpecRun == Init /\ [][NextRun]_vars

\* The threads keep running and time passes.
FairRun ==
    /\ SpecRun
    /\ WF_vars(RunTest)
    /\ WF_vars(\E write_ok \in BOOLEAN : RunBody(write_ok))
    /\ WF_vars(Tick)
    /\ WF_vars(WatchTest)
    /\ WF_vars(\E outcome \in {"ok", "raise"} : WatchBody(outcome))

-----------------------------------------------------------------------------
(* C21 *)

\* The events applied so far are the first events of the schedule, in
\* schedule order, each once.
AppliedInOrder ==
    \A i \in DOMAIN loops.applied : loops.applied[i].idx = i

\* No event was applied while virtual time was below its at_s.
AppliedNotEarly ==
    \A i \in DOMAIN loops.applied :
        loops.applied[i].vt >= Instant(chaos.schedule[loops.applied[i].idx].at_s)

\* run has returned after applying every event of the schedule.
RunComplete ==
    loops.run = "done" /\ Len(loops.applied) = Len(chaos.schedule)

\* C21: the scheduler loop applies the events in schedule order, each at
\* most once, never while virtual time is below the event's at_s, and, if
\* it is not cancelled, eventually applies every event and terminates.
C21_RunAppliesScheduleInOrder ==
    /\ [](AppliedInOrder /\ AppliedNotEarly)
    /\ (loops.run = "test") ~> (loops._stop \/ RunComplete)

-----------------------------------------------------------------------------
(* C22 *)

\* C22: an iteration that fails (applying an event raises, or a watcher
\* iteration raises) does not end its loop: the scheduler loop goes on to
\* its next test with the rest of the schedule still to apply, and the
\* watcher goes on to its next test.
C22_LoopsSurviveFailure ==
    [][/\ loops'.raises > loops.raises => loops'.run = "test"
       /\ loops'.watch_raises > loops.watch_raises => loops'.watch = "test"]_vars

-----------------------------------------------------------------------------
(* C23 *)

\* The scheduler loop has been left, by return or by an exception.
RunEnded == loops.run \in {"done", "raised"}

\* After the signal the scheduler applies at most one event, and only the
\* event of an iteration that had passed the loop test when the signal was
\* set; the watcher runs at most the iteration it was in.
AtMostCurrentIteration ==
    /\ loops.late <= 1
    /\ loops.late = 1 => loops.stop_in_body
    /\ loops.watch_late <= 1

\* A loop that has been left stays left and does nothing more: no event is
\* applied and the override document is not written; nothing is merged into
\* the store.
NothingAfterExit ==
    /\ RunEnded =>
        /\ loops'.run = loops.run
        /\ loops'.applied = loops.applied
        /\ overrides_json' = overrides_json
    /\ loops.watch = "exited" =>
        /\ loops'.watch = "exited"
        /\ UNCHANGED <<nodes_by_name, links_by_key, _overrides>>

\* C23: once the cancellation signal is set, the scheduler loop applies no
\* event other than the one of the iteration in progress and then
\* terminates, and the watcher loop exits after at most its current
\* iteration; neither loop applies an event or merges after it has exited.
C23_LoopsStopOnSignal ==
    /\ []AtMostCurrentIteration
    /\ [][NothingAfterExit]_vars
    /\ loops._stop ~> RunEnded
    /\ loops._stop_event ~> (loops.watch = "exited")

\* Both loops were cancelled in the middle of an iteration and have exited:
\* the scheduler applied the event of that iteration and left the rest of
\* the schedule unapplied, the watcher finished that iteration.
C23_Witness ==
    /\ loops._stop
    /\ loops.stop_in_body
    /\ loops.late = 1
    /\ loops.run = "done"
    /\ Len(loops.applied) < Len(chaos.schedule)
    /\ loops._stop_event
    /\ loops.watch_late = 1
    /\ loops.watch = "exited"

-----------------------------------------------------------------------------
(* Reloads: the watcher iteration of DTState._watch_loop reads             *)
(* overrides.json and, when topology.yaml has a newer modification time,   *)
(* calls _load_topology_locked again.                                      *)

\* A second link for the topology document.
TopologyLinks2 ==
    TopologyLinks \cup {[a |-> Str("n1"), b |-> Str("n3"), base |-> [speed_gbps |-> 2]]}

\* States of topology.yaml that the watcher can find with a newer
\* modification time.  No document of the model has a defaults section, so
\* self.defaults is {} before and after every reload.
TopologyFiles ==
    {[kind |-> "unreadable"],
     [kind |-> "doc", links |-> TopologyLinks],
     [kind |-> "doc", links |-> TopologyLinks2]}

\* _load_topology_locked on an existing file: the link map is rebuilt from
\* the document, every dyn slot fresh; when reading or parsing raises, the
\* except branch sets links_by_key = {} (and defaults = {}).
load_topology_file(file) ==
    IF file.kind = "unreadable" THEN <<>>
    ELSE LET keys == {link_key(ln.a, ln.b) : ln \in file.links}
             entry(k) == CHOOSE ln \in file.links : link_key(ln.a, ln.b) = k
         IN  [k \in keys |->
                [a |-> entry(k).a, b |-> entry(k).b,
                 base |-> entry(k).base, dyn |-> LinkDyn]]

\* One watcher iteration that finds the topology file changed.
ReloadTopology(file) ==
    /\ links_by_key' = load_topology_file(file)
    /\ last' = LastOp("load_topology", "", None, file.kind # "unreadable", FALSE, NoFree)
    /\ UNCHANGED <<nodes_by_name, _overrides, _res_seq, snap, aux_vars, issued, thread_vars>>

ReloadPayloads ==
    {[type |-> "link", key |-> K12, changes |-> [down |-> TRUE]],
     [type |-> "link", key |-> K13, changes |-> [loss_pct |-> Some(12)]],
     [type |-> "node", node |-> "n1", changes |-> [down |-> TRUE]],
     [type |-> "node", node |-> "n1", changes |-> [thermal_derate |-> 50]]}

NextReload ==
    \/ \E p \in ReloadPayloads : ApplyObservation(p)
    \/ \E file \in OverrideFiles : LoadOverrides(file)
    \/ \E file \in TopologyFiles : ReloadTopology(file)

SpecReload == Init /\ [][NextReload]_vars

-----------------------------------------------------------------------------
(* C24 *)

\* C24: when reading the override document fails or a topology reload
\* fails, the store's nodes and links, with their dyn values, are the same
\* after the failed attempt as before it.
C24_FailedLoadKeepsState ==
    [][(last'.op \in {"load_overrides", "load_topology"} /\ ~last'.ok)
            => UNCHANGED <<nodes_by_name, links_by_key>>]_vars

-----------------------------------------------------------------------------
(* Writers of the dyn fields: observations, and the override document as   *)
(* the chaos store rewrites it and the watcher merges it.  written keeps,  *)
(* per field <<section, key, field>>, the value of the most recent write:  *)
(* an observation writes the fields of its changes when it is applied, the *)
(* document writes a field when a merge finds it new or changed in the     *)
(* document.                                                               *)

\* Calls of OverridesStore.node_apply / link_apply.
WriteCalls ==
    {NodeApply("n1", [down |-> TRUE]),
     NodeApply("n1", [thermal_derate |-> 30]),
     NodeApply("n2", [thermal_derate |-> 50]),
     LinkApply("n1", "n2", [down |-> TRUE])}

WritePayloads ==
    {[type |-> "node", node |-> "n1", changes |-> [down |-> FALSE]],
     [type |-> "node", node |-> "n1", changes |-> [thermal_derate |-> 10]],
     [type |-> "link", key |-> K12, changes |-> [down |-> FALSE]]}

\* The live value of a field in the store.
Live(t) ==
    IF t[1] = "nodes" THEN nodes_by_name[t[2]].dyn[t[3]]
    ELSE links_by_key[t[2]].dyn[t[3]]

\* w with the fields ts written, each with the value val gives it.
Record(w, ts, val(_)) ==
    [t \in DOMAIN w \cup ts |-> IF t \in ts THEN val(t) ELSE w[t]]

\* The chaos store rewrites overrides.json.
DocWrite(c) ==
    /\ overrides_json' = store_call(overrides_json, c)
    /\ overrides_json' # overrides_json
    /\ UNCHANGED <<store_vars, snap, plan, chaos, loops, written, planning, issued, last,
                 thread_vars>>

\* One watcher iteration that finds overrides.json changed: the whole
\* document is merged.
MergeDoc ==
    /\ _overrides # overrides_json
    /\ LET r == _load_overrides_locked(_overrides, nodes_by_name, links_by_key,
                                       [kind |-> "doc", doc |-> overrides_json])
           changed == {t \in FieldsOf(overrides_json) :
                          Lookup(overrides_json, t) # Lookup(_overrides, t)}
           val(t) == Lookup(overrides_json, t)[1]
       IN  /\ _overrides' = r.overrides
           /\ nodes_by_name' = r.nodes
           /\ links_by_key' = r.links
           /\ written' = Record(written, changed, val)
    /\ last' = LastOp("load_overrides", "", None, TRUE, FALSE, NoFree)
    /\ UNCHANGED <<_res_seq, snap, plan, overrides_json, chaos, loops, planning, issued,
                 thread_vars>>

\* apply_observation(p) on a node or link the store holds.
ObserveWrite(p) ==
    /\ LET r == apply_observation(nodes_by_name, links_by_key, p)
           section == IF p.type = "node" THEN "nodes" ELSE "links"
           key == IF p.type = "node" THEN p.node ELSE p.key
           ts == {<<section, key, f>> : f \in DOMAIN p.changes}
           val(t) == p.changes[t[3]]
       IN  /\ nodes_by_name' = r.nodes
           /\ links_by_key' = r.links
           /\ written' = Record(written, ts, val)
           /\ last' = LastOp("observe", IF Has(p, "node") THEN p.node ELSE "",
                             None, r.outcome = "ok", FALSE, NoFree)
    /\ UNCHANGED <<_overrides, _res_seq, snap, plan, overrides_json, chaos, loops, planning,
                 issued, thread_vars>>

NextWrites ==
    \/ \E c \in WriteCalls : DocWrite(c)
    \/ MergeDoc
    \/ \E p \in WritePayloads : ObserveWrite(p)

SpecWrites == Init /\ [][NextWrites]_vars

-----------------------------------------------------------------------------
(* C25 *)

\* C25: after any interleaving of observations and override merges, the
\* live value of every dyn field is the one of the most recent write to
\* that field.
C25_LastWriterWinsPerField ==
    \A t \in DOMAIN written : Live(t) = written[t]

-----------------------------------------------------------------------------
(* A planning call taken step by step beside other callers of the store.   *)
(* GreedyPlanner.plan_job and plan() of dt/api.py read the store when they *)
(* scan the candidates of a stage and again when they call reserve; the    *)
(* store's lock is released in between.  FederatedPlanner.plan_job scores  *)
(* on the view it copied at the start of the call and reads the store only *)
(* in reserve.                                                             *)

\* jr: three stages of one core and one gigabyte each; n1 has room for two
\* of them, n2 for one.  jn: a stage no node has the memory for, then one
\* that fits.  jf: a stage that disallows wasm (n1 supports it), a stage
\* that allows only wasm (n2 does not support it), a stage that allows only
\* cuda (no node supports it).
RaceJobs ==
    {[id |-> "jr", stages |-> <<Stage("s1", 10, 1, 1, 0), Stage("s2", 10, 1, 1, 0),
                                Stage("s3", 10, 1, 1, 0)>>],
     [id |-> "jn", stages |-> <<Stage("s1", 10, 1, 3, 0), Stage("s2", 10, 1, 1, 0)>>],
     [id |-> "jf", stages |-> <<FormatStage("s1", {}, {"wasm"}),
                                FormatStage("s2", {"wasm"}, {}),
                                FormatStage("s3", {"cuda"}, {})>>]}

RacePlanners == LivePlanners \cup FedModes

\* What other clients do during the call: a reservation on n1, and the
\* observation that n1 is down.
RaceRequests == {Request("n1", 1, 1, 0)}

RacePayloads == {[type |-> "node", node |-> "n1", changes |-> [down |-> TRUE]]}

\* The locals of the call read against the store as it is now.
LiveLocals(acc) == [acc EXCEPT !.nodes = nodes_by_name, !.seq = _res_seq]

\* The stage the call is at.
RaceStage == planning.job.stages[planning.i]

\* Entry into plan_job: the locals before the first stage.
RaceBegin(planner, job, dry_run) ==
    /\ planning.pc = "idle"
    /\ _res_seq <= MaxSeq
    /\ planning' = [pc |-> IF planner \in FedModes THEN "stage" ELSE "choose",
                    planner |-> planner, job |-> job, dry_run |-> dry_run, i |-> 1,
                    best |-> NoBest,
                    acc |-> IF planner \in FedModes
                            THEN FedPlanStart(nodes_by_name, _res_seq)
                            ELSE PlanStart(nodes_by_name, _res_seq),
                    attempts |-> [k \in 1..Len(job.stages) |-> 0]]
    /\ UNCHANGED <<store_vars, snap, plan, overrides_json, chaos, loops, written,
                   issued, last, thread_vars>>

\* The scan over the candidates of the stage (greedy.py, api.py).
RaceChoose ==
    /\ planning.pc = "choose"
    /\ planning.i <= Len(planning.job.stages)
    /\ planning' = [planning EXCEPT
                        !.pc = "reserve",
                        !.best = _choose_node_for_stage(planning.planner, nodes_by_name,
                                    links_by_key, RaceStage, planning.acc.prev_node)]
    /\ UNCHANGED <<store_vars, snap, plan, overrides_json, chaos, loops, written,
                   issued, last, thread_vars>>

\* The rest of the loop body for the stage: `acc2` is the locals after it.
RaceStep(acc2, called_reserve) ==
    /\ planning' = [planning EXCEPT
                        !.pc = IF planning.planner \in FedModes THEN "stage" ELSE "choose",
                        !.i = @ + 1,
                        !.best = NoBest,
                        !.acc = acc2,
                        !.attempts[planning.i] = @ + (IF called_reserve THEN 1 ELSE 0)]
    /\ nodes_by_name' = acc2.nodes
    /\ _res_seq' = acc2.seq
    /\ issued' = issued \o SubSeq(ReservedIds(acc2.reservations),
                                  Len(planning.acc.reservations) + 1,
                                  Len(acc2.reservations))
    /\ UNCHANGED <<links_by_key, _overrides, snap, plan, overrides_json, chaos, loops,
                   written, last, thread_vars>>

\* The reservation for the chosen node and the entry of per_stage
\* (greedy.py, api.py).
RaceReserve ==
    /\ planning.pc = "reserve"
    /\ RaceStep(plan_stage_chosen(LiveLocals(planning.acc), RaceStage,
                                  planning.dry_run, planning.best),
                /\ ~planning.dry_run
                /\ planning.best.name # ""
                /\ planning.best.score # Inf)

\* One pass of the loop of FederatedPlanner.plan_job.
RaceFedStage ==
    /\ planning.pc = "stage"
    /\ planning.i <= Len(planning.job.stages)
    /\ RaceStep(fed_plan_stage(LiveLocals(planning.acc), links_by_key, RaceStage,
                               planning.dry_run, DEFAULT_MODES[planning.planner]),
                /\ ~planning.dry_run
                /\ fed_candidates(planning.acc.view, links_by_key, RaceStage,
                                  planning.acc.fed_entry, planning.acc.prev_node,
                                  planning.acc.used_federations,
                                  DEFAULT_MODES[planning.planner], 1) # <<>>)

\* After the last stage: the response.
RaceEnd ==
    /\ planning.pc \in {"choose", "stage"}
    /\ planning.i > Len(planning.job.stages)
    /\ LET r == PlanResult(planning.planner, LiveLocals(planning.acc), links_by_key,
                           planning.job, planning.dry_run)
       IN  /\ plan' = Response(r)
           /\ last' = LastOp("plan", planning.job.id, None, ~r.infeasible /\ r.error = "",
                             FALSE, NoFree)
    /\ planning' = NoPlanning
    /\ UNCHANGED <<store_vars, snap, overrides_json, chaos, loops, written, issued,
                   thread_vars>>

NextRace ==
    \/ \E planner \in RacePlanners, job \in RaceJobs, dry_run \in BOOLEAN :
            RaceBegin(planner, job, dry_run)
    \/ RaceChoose
    \/ RaceReserve
    \/ RaceFedStage
    \/ RaceEnd
    \/ \E req \in RaceRequests : Reserve(req)
    \/ \E p \in RacePayloads : ApplyObservation(p)

SpecRace == Init /\ [][NextRace]_vars

-----------------------------------------------------------------------------
(* C26 *)

\* The step that ends the loop body of the stage the call is at.
StageStep ==
    /\ planning.pc \in {"reserve", "stage"}
    /\ planning'.pc \in {"choose", "stage"}
    /\ planning'.i = planning.i + 1

\* The candidates FederatedPlanner.plan_job sorted for the stage.
RaceCandidates ==
    sort_by_score(fed_candidates(planning.acc.view, links_by_key, RaceStage,
                                 planning.acc.fed_entry, planning.acc.prev_node,
                                 planning.acc.used_federations,
                                 DEFAULT_MODES[planning.planner], 1))

\* The stage has no feasible node.
NoFeasibleNode ==
    IF planning.planner \in FedModes
    THEN RaceCandidates = <<>>
    ELSE planning.best.name = "" \/ planning.best.score = Inf

\* The node with the winning score.
Winner ==
    IF planning.planner \in FedModes THEN RaceCandidates[1].name ELSE planning.best.name

\* The store refuses the reservation for the winning node.
ReserveRefused ==
    /\ ~NoFeasibleNode
    /\ reserve(nodes_by_name, _res_seq, StageRequest(Winner, RaceStage)).ret = None

\* C26: in a plan that is no dry run, a stage with no feasible node, or one
\* the store refuses the reservation of the winning node for, is marked
\* infeasible and gets no assignment; reserve is called once for it when a
\* node won and never when none did; the call goes on to the next stage with
\* prev_node = none; the store and the reservations made for the earlier
\* stages stay as they were.
C26_FailedStageIsSkippedOnce ==
    [][(StageStep /\ ~planning.dry_run /\ (NoFeasibleNode \/ ReserveRefused)) =>
            /\ Len(planning'.acc.per_stage) = planning.i
            /\ planning'.acc.per_stage[planning.i].id = RaceStage.id
            /\ planning'.acc.per_stage[planning.i].infeasible
            /\ planning'.acc.per_stage[planning.i].reservation_id = None
            /\ planning'.acc.infeasible
            /\ planning'.acc.assignments = planning.acc.assignments
            /\ RaceStage.id \notin DOMAIN planning'.acc.assignments
            /\ planning'.attempts[planning.i] = (IF ReserveRefused THEN 1 ELSE 0)
            /\ planning'.i = planning.i + 1
            /\ planning'.acc.prev_node = ""
            /\ planning'.acc.reservations = planning.acc.reservations
            /\ UNCHANGED <<nodes_by_name, _res_seq, issued>>]_vars

\* A plan whose second stage lost its node to another client between the
\* scoring and the reservation, with the first and the third stage placed.
C26_Witness ==
    /\ plan.planner \in RacePlanners
    /\ ~plan.dry_run
    /\ Len(plan.per_stage) = 3
    /\ ~plan.per_stage[1].infeasible
    /\ plan.per_stage[2].infeasible
    /\ plan.per_stage[2].reason # "no_feasible_node"
    /\ ~plan.per_stage[3].infeasible
    /\ Len(plan.reservations) = 2
    /\ DOMAIN plan.assignments = {"s1", "s3"}

-----------------------------------------------------------------------------
(* C27 *)

\* A step of the planning call: entry, a scan, a loop body or the return.
PlannerStep == planning' # planning

\* The call the step belongs to is a dry run.
DryStep == IF planning.pc = "idle" THEN planning'.dry_run ELSE planning.dry_run

\* The step is the return of the call.
Returns == planning.pc # "idle" /\ planning'.pc = "idle"

\* The store after state.reserve for the winning node of the stage.
StageReserve == reserve(nodes_by_name, _res_seq, StageRequest(Winner, RaceStage))

\* C27: a planning call changes the store only through reserve, and only
\* when dry_run is false.  No step of a call changes the links or the
\* overrides; a step that changes the nodes or the reservation counter is
\* the reserve of the stage's request on the winning node, in a call that
\* is no dry run; every step of a dry run leaves used_*, reservations, the
\* counter and the dyn fields as they are, and a dry run returns an empty
\* reservations list and no reservation id in any entry of per_stage.
C27_DryRunLeavesStore ==
    [][PlannerStep =>
            /\ UNCHANGED <<links_by_key, _overrides>>
            /\ (DryStep => UNCHANGED <<nodes_by_name, _res_seq, issued>>)
            /\ (~UNCHANGED <<nodes_by_name, _res_seq>> =>
                    /\ StageStep
                    /\ ~NoFeasibleNode
                    /\ nodes_by_name' = StageReserve.nodes
                    /\ _res_seq' = StageReserve.seq)
            /\ ((Returns /\ DryStep) =>
                    /\ plan'.dry_run
                    /\ plan'.reservations = <<>>
                    /\ Len(plan'.per_stage) > 0
                    /\ \A k \in 1..Len(plan'.per_stage) :
                            plan'.per_stage[k].reservation_id = None)]_vars

\* A dry run of the three-stage job has returned with every stage placed,
\* and nothing in the store has been reserved.
C27_Witness ==
    /\ plan.dry_run
    /\ plan.planner \in RacePlanners
    /\ DOMAIN plan.assignments = {"s1", "s2", "s3"}
    /\ plan.reservations = <<>>
    /\ nodes_by_name = _load_nodes_locked
    /\ _res_seq = 1

-----------------------------------------------------------------------------
(* C28 *)

\* The reservation ids node n holds after the step and not before.
NewRids(n) ==
    DOMAIN nodes_by_name'[n].dyn.reservations \ DOMAIN nodes_by_name[n].dyn.reservations

\* The entries of a sequence.
Entries(s) == {s[k] : k \in 1..Len(s)}

\* C28: in a Federated plan that is no dry run, the loop pass of a stage
\* that gets an assignment creates one reservation in the store, on the
\* stage's primary node and for the stage's demand, and leaves every other
\* node, the fallbacks among them, as it was; the pass of a stage that gets
\* none creates no reservation; the call returns as many reservations as it
\* assigned stages.
C28_OneReservationPerAssignedStage ==
    [][/\ (StageStep /\ planning.planner \in FedModes /\ ~planning.dry_run) =>
            IF RaceStage.id \in DOMAIN planning'.acc.assignments
            THEN LET primary == planning'.acc.assignments[RaceStage.id]
                     entry == planning'.acc.per_stage[planning.i]
                 IN  /\ entry.node = primary
                     /\ entry.reservation_id # None
                     /\ NewRids(primary) = {entry.reservation_id}
                     /\ nodes_by_name'[primary].dyn.reservations[entry.reservation_id]
                            = RaceStage.resources
                     /\ primary \notin Entries(entry.fallbacks)
                     /\ \A n \in NodeNames \ {primary} :
                            nodes_by_name'[n] = nodes_by_name[n]
                     /\ planning'.acc.reservations =
                            Append(planning.acc.reservations,
                                   [node |-> primary,
                                    reservation_id |-> entry.reservation_id])
            ELSE /\ UNCHANGED nodes_by_name
                 /\ planning'.acc.reservations = planning.acc.reservations
       /\ (Returns /\ planning.planner \in FedModes /\ ~planning.dry_run) =>
            /\ Len(plan'.reservations) = Cardinality(DOMAIN plan'.assignments)
            /\ \A k \in 1..Len(plan'.per_stage) :
                    plan'.per_stage[k].infeasible
                    \/ [node |-> plan'.assignments[plan'.per_stage[k].id],
                        reservation_id |-> plan'.per_stage[k].reservation_id]
                            \in Entries(plan'.reservations)]_vars

\* A Federated plan has returned with a stage reserved on n1 and n2 named
\* as its fallback, and n2 holds no reservation.
C28_Witness ==
    /\ plan.planner \in FedModes
    /\ ~plan.dry_run
    /\ \E k \in 1..Len(plan.per_stage) :
            /\ ~plan.per_stage[k].infeasible
            /\ plan.per_stage[k].node = "n1"
            /\ plan.per_stage[k].fallbacks = <<"n2">>
    /\ Len(plan.reservations) > 0
    /\ DOMAIN nodes_by_name["n2"].dyn.reservations = {}

-----------------------------------------------------------------------------
(* C29 *)

\* The formats of the node are compatible with the stage: none of them is
\* disallowed, and one of them is allowed when the stage allows any.
FormatsCompatible(node_name, stage) ==
    LET fmts == NodeFiles[node_name].formats_supported
    IN  /\ fmts \cap stage.disallowed_formats = {}
        /\ stage.allowed_formats = {} \/ fmts \cap stage.allowed_formats # {}

\* C29: no planner assigns a stage to a node that supports a format the
\* stage disallows, nor, when the stage allows formats, to a node that
\* supports none of them.
C29_AssignedNodeFormatsCompatible ==
    planning.pc # "idle" =>
        \A k \in 1..Len(planning.job.stages) :
            planning.job.stages[k].id \in DOMAIN planning.acc.assignments =>
                FormatsCompatible(planning.acc.assignments[planning.job.stages[k].id],
                                  planning.job.stages[k])

-----------------------------------------------------------------------------
(* Planning calls and what they answer, beside reservations of other       *)
(* clients and observations.                                               *)

\* ja: two stages that fit.  jb: a stage no node has the memory for, then one
\* that fits.  jc: a stage without id, then one that fits.  jd: a stage that
\* fits, then one without id.
RespJobs ==
    {[id |-> "ja", stages |-> <<Stage("s1", 10, 1, 1, 0), Stage("s2", 10, 1, 1, 0)>>],
     [id |-> "jb", stages |-> <<Stage("s1", 10, 1, 3, 0), Stage("s2", 10, 1, 1, 0)>>],
     [id |-> "jc", stages |-> <<Stage("", 10, 1, 1, 0), Stage("s2", 10, 1, 1, 0)>>],
     [id |-> "jd", stages |-> <<Stage("s1", 10, 1, 1, 0), Stage("", 10, 1, 1, 0)>>]}

NextResp ==
    \/ \E planner \in LivePlanners, job \in RespJobs, dry_run \in BOOLEAN :
            Plan(planner, job, dry_run)
    \/ \E job \in RespJobs, dry_run \in BOOLEAN, mode \in FedModes :
            PlanFederated(job, dry_run, mode)
    \/ \E req \in RaceRequests : Reserve(req)
    \/ \E p \in PlanPayloads : ApplyObservation(p)

SpecResp == Init /\ [][NextResp]_vars

-----------------------------------------------------------------------------
(* C30 *)

\* The job of the planning call that returned last.
PlannedJob == CHOOSE job \in RespJobs : job.id = last.node

\* The last operation was a planning call that returned a response (and not
\* the validation error of dt/api.py).
Answered == last.op = "plan" /\ plan.error = ""

\* per_stage holds one entry per stage of the job, in job order.
OneEntryPerStage(job) ==
    /\ Len(plan.per_stage) = Len(job.stages)
    /\ \A k \in 1..Len(job.stages) : plan.per_stage[k].id = job.stages[k].id

\* Some stage of the job has no assignment, or the latency of the job under
\* the assignments is +inf.
Unplaced(job) ==
    \/ \E k \in 1..Len(job.stages) : job.stages[k].id \notin DOMAIN plan.assignments
    \/ job_cost(nodes_by_name, links_by_key, job, plan.assignments).latency_ms = Inf

\* C30: the response of a planning call over a job with at least one stage
\* holds in per_stage exactly one entry for each stage of the job, in job
\* order, placed or not, and its infeasible flag is true exactly when some
\* stage has no assignment or the job latency is +inf.
C30_CompleteResponse ==
    Answered =>
        /\ OneEntryPerStage(PlannedJob)
        /\ plan.infeasible <=> Unplaced(PlannedJob)

-----------------------------------------------------------------------------
(* dt/api.py: POST /plan with its validation, and POST /plan_batch          *)

\* Mutant of api_plan: a job without stages is planned like any other.
api_plan_accepts_empty(nodes, links, seq, job, dry_run) ==
    plan_job("api", nodes, links, seq, job, dry_run)

\* plan() of dt/api.py on the job of the request: the error for a job
\* without stages, else the loop over the stages and the response.
api_plan(nodes, links, seq, job, dry_run) ==
    IF job.stages = <<>>
    THEN PlanResult("api", [PlanStart(nodes, seq) EXCEPT !.error = "job.stages is empty"],
                    links, job, dry_run)
    ELSE plan_job("api", nodes, links, seq, job, dry_run)

\* The locals of plan_batch before the first job; `reserved` is what the
\* calls of plan() reserved in the store.
BatchStart(nodes, seq) ==
    [nodes |-> nodes, seq |-> seq, results |-> <<>>, error |-> "", status |-> 200,
     reserved |-> <<>>]

\* The loop of plan_batch over the jobs: plan() on each job in turn; the
\* first answer with a status from 400 on is returned as it is.
RECURSIVE plan_batch_jobs(_, _, _, _, _)

\* The body of the loop for the answer r of plan() on job i.
batch_answer(acc, r, links, jobs, i, dry_run) ==
    IF r.error # ""
    THEN [acc EXCEPT !.nodes = r.nodes, !.seq = r.seq,
                     !.reserved = @ \o r.reserved,
                     !.results = <<>>, !.error = r.error, !.status = 400]
    ELSE plan_batch_jobs(
             [acc EXCEPT !.nodes = r.nodes, !.seq = r.seq,
                         !.reserved = @ \o r.reserved,
                         !.results = Append(@, [job_id |-> jobs[i].id,
                                                response |-> Response(r)])],
             links, jobs, i + 1, dry_run)

plan_batch_jobs(acc, links, jobs, i, dry_run) ==
    IF i > Len(jobs) THEN acc
    ELSE batch_answer(acc, api_plan(acc.nodes, links, acc.seq, jobs[i], dry_run),
                      links, jobs, i, dry_run)

\* The jobs of the batches: two that plan() accepts, one without stages,
\* and one whose second stage has no id.
BatchJob(id) ==
    CASE id = "ja" -> [id |-> "ja", stages |-> <<Stage("s1", 10, 1, 1, 0)>>]
      [] id = "jb" -> [id |-> "jb", stages |-> <<Stage("s1", 10, 1, 1, 0),
                                                   Stage("s2", 10, 1, 1, 0)>>]
      [] id = "je" -> [id |-> "je", stages |-> <<>>]
      [] id = "jd" -> [id |-> "jd", stages |-> <<Stage("s1", 10, 1, 1, 0),
                                                   Stage("", 10, 1, 1, 0)>>]

Batches ==
    {[id |-> "b1", jobs |-> <<BatchJob("ja"), BatchJob("jb")>>],
     [id |-> "b2", jobs |-> <<BatchJob("jb"), BatchJob("ja")>>],
     [id |-> "b3", jobs |-> <<BatchJob("ja"), BatchJob("je")>>],
     [id |-> "b4", jobs |-> <<BatchJob("jd"), BatchJob("ja")>>],
     [id |-> "b5", jobs |-> <<BatchJob("je")>>]}

\* POST /plan
ApiPlan(job, dry_run) ==
    /\ _res_seq <= MaxSeq
    /\ Planned(api_plan(nodes_by_name, links_by_key, _res_seq, job, dry_run), job)

\* What plan_batch leaves in the store and returns, r being the locals
\* after its loop.
Batched(r, b, dry_run) ==
    /\ nodes_by_name' = r.nodes
    /\ _res_seq' = r.seq
    /\ plan' = [planner |-> "api", dry_run |-> dry_run, results |-> r.results,
                error |-> r.error, status |-> r.status]
    /\ issued' = issued \o ReservedIds(r.reserved)
    /\ last' = LastOp("plan_batch", b.id, None, r.error = "", FALSE, NoFree)
    /\ UNCHANGED <<links_by_key, _overrides, snap, overrides_json, chaos, loops, written,
                   planning, thread_vars>>

\* POST /plan_batch
PlanBatch(b, dry_run) ==
    /\ _res_seq <= MaxSeq
    /\ Batched(plan_batch_jobs(BatchStart(nodes_by_name, _res_seq), links_by_key,
                               b.jobs, 1, dry_run), b, dry_run)

NextBatch ==
    \/ \E b \in Batches, dry_run \in BOOLEAN : PlanBatch(b, dry_run)
    \/ \E id \in {"ja", "jd", "je"}, dry_run \in BOOLEAN : ApiPlan(BatchJob(id), dry_run)
    \/ \E req \in RaceRequests : Reserve(req)
    \/ \E p \in RacePayloads : ApplyObservation(p)

SpecBatch == Init /\ [][NextBatch]_vars

-----------------------------------------------------------------------------
(* C31 *)

\* plan() rejects the job: it has no stages, or a stage of it has no id.
FailsValidation(job) ==
    \/ job.stages = <<>>
    \/ \E k \in 1..Len(job.stages) : job.stages[k].id = ""

\* The batch of the plan_batch request answered in the step.
Batch == CHOOSE b \in Batches : b.id = last'.node

\* The stores the jobs of the batch are planned against, one after the
\* other: the store before the request, then the store each single plan
\* leaves.
RECURSIVE SinglePlans(_, _, _, _, _)
SinglePlans(nodes, links, seq, jobs, dry_run) ==
    IF jobs = <<>> THEN <<>>
    ELSE LET r == api_plan(nodes, links, seq, Head(jobs), dry_run)
         IN  <<r>> \o SinglePlans(r.nodes, links, r.seq, Tail(jobs), dry_run)

\* C31: plan_batch plans the jobs in submission order with the logic of a
\* single plan, each against the store the plans before it left, and
\* returns one result per job in that order under the job's id; when a job
\* of the batch fails validation the answer is the error of the first such
\* job with status 400 and no results.
C31_BatchPlansInOrder ==
    [][last'.op = "plan_batch" =>
        LET jobs == Batch.jobs
            singles == SinglePlans(nodes_by_name, links_by_key, _res_seq, jobs,
                                   plan'.dry_run)
            bad == {k \in 1..Len(jobs) : FailsValidation(jobs[k])}
        IN  IF bad = {}
            THEN /\ plan'.error = ""
                 /\ plan'.status = 200
                 /\ Len(plan'.results) = Len(jobs)
                 /\ \A k \in 1..Len(jobs) :
                        /\ plan'.results[k].job_id = jobs[k].id
                        /\ plan'.results[k].response = Response(singles[k])
                 /\ nodes_by_name' = singles[Len(jobs)].nodes
            ELSE /\ plan'.status = 400
                 /\ plan'.results = <<>>
                 /\ plan'.error # ""
                 /\ \E k \in bad :
                        /\ \A j \in bad : k <= j
                        /\ plan'.error = singles[k].error]_vars

\* A batch of two jobs has been answered with two results in submission
\* order, the second with reservations of its own.
C31_Witness ==
    /\ last.op = "plan_batch"
    /\ last.node = "b1"
    /\ ~plan.dry_run
    /\ Len(plan.results) = 2
    /\ plan.results[1].job_id = "ja"
    /\ plan.results[2].job_id = "jb"
    /\ plan.results[2].response.reservations # <<>>

-----------------------------------------------------------------------------
(* C36 *)

\* C36: a plan or plan_batch request answered with a validation error
\* leaves the reservations and the used_* amounts of every node as they
\* were before the request.
C36_RejectedRequestLeavesStore ==
    [][(last'.op \in {"plan", "plan_batch"} /\ plan'.error # "") =>
            UNCHANGED nodes_by_name]_vars

-----------------------------------------------------------------------------
(* dt/cost_model.py: CostModel.slo_penalty.  Deadline and latency are in    *)
(* hundredths of a millisecond, as the times of the cost model above.      *)

\* clamp(latency_ms / max(1.0, deadline_ms), 0.0, 100.0), in ten-thousandths.
slo_ratio(deadline_ms, latency_ms) ==
    clamp((latency_ms * 10000) \div Max(Ms(1), deadline_ms), 0, 100 * 10000)

\* CostModel.slo_penalty.  The value returned by the code is
\* (ratio ** SLO_ALPHA - 1.0) / max(1e-6, SLO_BETA) with SLO_ALPHA = 1.2 and
\* SLO_BETA = 0.002, a strictly increasing function of the ratio that is 0 at
\* ratio 1; the model returns ratio - 1 in ten-thousandths, which is zero,
\* positive and ordered exactly as that value is.
slo_penalty(deadline_ms, latency_ms) ==
    IF deadline_ms <= 0 \/ ~IsFinite(latency_ms) THEN 0
    ELSE IF slo_ratio(deadline_ms, latency_ms) <= 10000 THEN 0
    ELSE slo_ratio(deadline_ms, latency_ms) - 10000

\* Deadlines: negative, none, half a millisecond, 1, 2 and 4 ms.
Deadlines == {0 - 100, 0, 50, 100, 200, 400}

\* Latencies: from 0 to 500 ms, and the latency of an infeasible plan.
Latencies == {0, 50, 80, 100, 150, 200, 300, 400, 50000, Inf}

\* No penalty has been computed.
NoPenalty == [deadline_ms |-> 0, latency_ms |-> 0, slo_penalty |-> 0]

\* The penalty as a caller gets it, with the one computed before it.
Penalised(deadline_ms, latency_ms, penalty) ==
    /\ plan' = [planner |-> "slo_penalty", deadline_ms |-> deadline_ms,
                latency_ms |-> latency_ms, slo_penalty |-> penalty,
                before |-> IF plan.planner = "slo_penalty"
                           THEN [deadline_ms |-> plan.deadline_ms,
                                 latency_ms |-> plan.latency_ms,
                                 slo_penalty |-> plan.slo_penalty]
                           ELSE NoPenalty]
    /\ UNCHANGED <<store_vars, snap, overrides_json, chaos, loops, written, planning,
                   issued, last, thread_vars>>

\* CostModel.slo_penalty(deadline_ms, latency_ms)
SloPenalty(deadline_ms, latency_ms) ==
    /\ planning.pc = "idle"
    /\ Penalised(deadline_ms, latency_ms, slo_penalty(deadline_ms, latency_ms))

\* The slo_penalty of a planner's response:
\* CM.slo_penalty(ddl, cost["latency_ms"]) if ddl > 0 else 0.0
ResponsePenalty(deadline_ms, latency_ms) ==
    /\ planning.pc = "idle"
    /\ Penalised(deadline_ms, latency_ms,
                 IF deadline_ms > 0 THEN slo_penalty(deadline_ms, latency_ms) ELSE 0)

NextSlo ==
    \/ \E d \in Deadlines, l \in Latencies : SloPenalty(d, l)
    \/ \E d \in Deadlines, l \in Latencies : ResponsePenalty(d, l)

SpecSlo == Init /\ [][NextSlo]_vars

-----------------------------------------------------------------------------
(* C32 *)

\* C32: slo_penalty is 0 when the deadline is <= 0 or the latency is at
\* most the deadline; with a deadline > 0 and a latency above it, the
\* latency +inf of an infeasible plan and deadlines below 1 ms included, it
\* is strictly positive, and of two latencies above the same deadline the
\* larger one has no smaller penalty.
C32_PenaltyPositiveOverDeadline ==
    plan.planner = "slo_penalty" =>
        /\ (plan.deadline_ms <= 0 \/ plan.latency_ms <= plan.deadline_ms) =>
                plan.slo_penalty = 0
        /\ (plan.deadline_ms > 0 /\ plan.latency_ms > plan.deadline_ms) =>
                /\ plan.slo_penalty > 0
                /\ (/\ plan.before.deadline_ms = plan.deadline_ms
                    /\ plan.before.latency_ms > plan.deadline_ms
                    /\ plan.before.latency_ms <= plan.latency_ms) =>
                        plan.before.slo_penalty <= plan.slo_penalty

-----------------------------------------------------------------------------
(* The winner of a stage's scan: GreedyPlanner.plan_job and the /plan      *)
(* route, stage by stage, beside a whole dry run and other clients.        *)

\* jt: a stage both nodes fit with the same score.  ju: a stage that
\* disallows wasm (which /plan places on n2), then a stage both nodes fit,
\* n2 without a transfer.  jr of RaceJobs: three stages, of which n1 has
\* room for two.
TieJobs ==
    {[id |-> "jt", stages |-> <<Stage("s1", 10, 1, 1, 0)>>],
     [id |-> "ju", stages |-> <<FormatStage("s1", {}, {"wasm"}),
                                Stage("s2", 10, 1, 1, 0)>>],
     [id |-> "jr", stages |-> <<Stage("s1", 10, 1, 1, 0), Stage("s2", 10, 1, 1, 0),
                                Stage("s3", 10, 1, 1, 0)>>]}

\* Observations: n1 is down; n1 is derated to no cpu at all (its compute
\* time is then +inf).
TiePayloads ==
    {[type |-> "node", node |-> "n1", changes |-> [down |-> TRUE]],
     [type |-> "node", node |-> "n1", changes |-> [thermal_derate |-> 100]]}

\* A whole dry run of a planner, while no stepwise call is under way.
DryPlan(planner, job) ==
    /\ planning.pc = "idle"
    /\ Plan(planner, job, TRUE)

NextTie ==
    \/ \E planner \in LivePlanners, job \in TieJobs, dry_run \in BOOLEAN :
            RaceBegin(planner, job, dry_run)
    \/ RaceChoose
    \/ RaceReserve
    \/ RaceEnd
    \/ \E planner \in LivePlanners, job \in TieJobs : DryPlan(planner, job)
    \/ \E req \in RaceRequests : Reserve(req)
    \/ \E p \in TiePayloads : ApplyObservation(p)

SpecTie == Init /\ [][NextTie]_vars

-----------------------------------------------------------------------------
(* C33 *)

\* The step that scans the nodes for the stage the call is at.
ChooseStep ==
    /\ planning.pc = "choose"
    /\ planning'.pc = "reserve"

\* The nodes that pass the feasibility test of the planner for the stage.
Feasible ==
    {n \in DOMAIN nodes_by_name :
        IF planning.planner = "api" THEN api_fits(nodes_by_name[n], RaceStage)
        ELSE _fits(nodes_by_name[n], RaceStage)}

\* The score of node n for the stage.
Score(n) ==
    _score_candidate(planning.planner, nodes_by_name, links_by_key, RaceStage, n,
                     planning.acc.prev_node)

\* The place of node n in the iteration order of the node map.
Position(n) == CHOOSE k \in 1..Len(NodeOrder) : NodeOrder[k] = n

\* The winner is feasible, no feasible node scores less, and no feasible
\* node with the same score comes before it; there is no winner only when
\* every feasible node scores +inf.
MinimalFirst(best) ==
    IF best.name = ""
    THEN \A n \in Feasible : Score(n) = Inf
    ELSE /\ best.name \in Feasible
         /\ best.score = Score(best.name)
         /\ best.score # Inf
         /\ \A n \in Feasible :
                /\ Score(n) >= best.score
                /\ Score(n) = best.score => Position(best.name) <= Position(n)

\* The whole dry run of a job that returns in this step.
DryPlanStep ==
    /\ planning.pc = "idle"
    /\ planning' = planning
    /\ last'.op = "plan"
    /\ plan'.dry_run

-----------------------------------------------------------------------------
(* FederatedPlanner.plan_job stage by stage and as a whole call, beside    *)
(* other clients.                                                          *)

\* jr: three stages of one core and one gigabyte each; n1 has room for two
\* of them, n2 for one.  jz: a stage that asks for minus one core, then a
\* stage of three cores (no node has three).  jw: a stage that allows only
\* wasm (n2 does not support it), then a stage no node has the memory for,
\* then one that fits.
FedJobs ==
    {[id |-> "jr", stages |-> <<Stage("s1", 10, 1, 1, 0), Stage("s2", 10, 1, 1, 0),
                                Stage("s3", 10, 1, 1, 0)>>],
     [id |-> "jz", stages |-> <<Stage("s1", 10, 0 - 1, 0, 0), Stage("s2", 10, 3, 1, 0)>>],
     [id |-> "jw", stages |-> <<FormatStage("s1", {"wasm"}, {}),
                                Stage("s2", 10, 1, 3, 0),
                                Stage("s3", 10, 1, 1, 0)>>]}

\* A whole call of FederatedPlanner.plan_job, while no stepwise call is
\* under way.
FedPlan(job, dry_run, mode) ==
    /\ planning.pc = "idle"
    /\ PlanFederated(job, dry_run, mode)

NextFed ==
    \/ \E mode \in FedModes, job \in FedJobs, dry_run \in BOOLEAN :
            RaceBegin(mode, job, dry_run)
    \/ RaceFedStage
    \/ RaceEnd
    \/ \E mode \in FedModes, job \in FedJobs, dry_run \in BOOLEAN :
            FedPlan(job, dry_run, mode)
    \/ \E req \in RaceRequests : Reserve(req)
    \/ \E p \in RacePayloads : ApplyObservation(p)

SpecFed == Init /\ [][NextFed]_vars

-----------------------------------------------------------------------------
(* C34 *)

\* The total demand for `field` of the stages of `job` that `assignments`
\* places on node n.
Demand(job, assignments, n, field) ==
    SeqSum([k \in 1..Len(job.stages) |->
                IF /\ job.stages[k].id \in DOMAIN assignments
                   /\ assignments[job.stages[k].id] = n
                THEN job.stages[k].resources[field] ELSE 0])

\* The free amounts `free` less the demand of stage st.
LessDemand(free, st) ==
    [free EXCEPT
        !.free_cpu_cores = @ - st.resources.cpu_cores,
        !.free_mem_gb = @ - st.resources.mem_gb,
        !.free_gpu_vram_gb = @ - st.resources.gpu_vram_gb]

\* The step of a stepwise call that places the stage it is at.
PlacesStage ==
    /\ StageStep
    /\ planning.planner \in FedModes
    /\ RaceStage.id \in DOMAIN planning'.acc.assignments

\* The whole call of FederatedPlanner.plan_job that returns in this step.
FedPlanStep ==
    /\ planning' = planning
    /\ last'.op = "plan"
    /\ plan'.planner \in FedModes

-----------------------------------------------------------------------------
(* FederatedPlanner.plan_job over nodes of two federations: the fallbacks  *)
(* of a stage and the metrics of the job.  What _fits and _score_candidate *)
(* return for each node at a stage, and whether the store accepts the      *)
(* reservation, are the inputs of the stage.                               *)

\* The iteration order of the copy of the node map.
ShadowOrder == <<"a1", "b1", "b2">>

\* federations_overview()["node_federations"]: the federation label of
\* each node.
node_federations == [a1 |-> "fa", b1 |-> "fb", b2 |-> "fb"]

MaxScore == 2

\* What the scan of a stage finds for each node: whether _fits holds and,
\* if so, the score.
Scans ==
    {scan \in [DOMAIN node_federations -> [fits : BOOLEAN, score : 1..MaxScore]] :
        \A n \in DOMAIN node_federations : ~scan[n].fits => scan[n].score = 1}

\* The ids of the stages of a job: two stages; a stage without id and a
\* stage with one; one stage.
ShadowJobs == {<<"s1", "s2">>, <<"", "s1">>, <<"s1">>}

\* The candidates of a stage, in the order of the node map.
RECURSIVE shadow_candidates(_, _)
shadow_candidates(scan, i) ==
    IF i > Len(ShadowOrder) THEN <<>>
    ELSE IF scan[ShadowOrder[i]].fits
         THEN <<[name |-> ShadowOrder[i], score |-> scan[ShadowOrder[i]].score]>>
                \o shadow_candidates(scan, i + 1)
         ELSE shadow_candidates(scan, i + 1)

\* The number of fallbacks whose federation differs from that of the best
\* node.
crossfed_count(best_name, fallbacks) ==
    Cardinality({k \in 1..Len(fallbacks) :
                    node_federations[fallbacks[k]] # node_federations[best_name]})

\* len(unique_feds) / max(1, len(stages)), in ten-thousandths.
federation_spread(assignments, stages) ==
    (Cardinality({node_federations[assignments[sid]] : sid \in DOMAIN assignments})
        * 10000) \div Max(1, Len(stages))

\* The share of the stages that have a fallback, in ten-thousandths.
resilience_score(shadow_assignments, stages) ==
    (Cardinality({sid \in DOMAIN shadow_assignments : shadow_assignments[sid] # <<>>})
        * 10000) \div Max(1, Len(stages))

\* fallback_crossfed / max(1, len(stages)), in ten-thousandths.
cross_federation_fallback_ratio(fallback_crossfed, stages) ==
    (fallback_crossfed * 10000) \div Max(1, Len(stages))

\* Entry into plan_job; the caller holds no result while the call runs.
ShadowBegin(mode, stages, dry_run) ==
    /\ planning.pc = "idle"
    /\ planning' = [pc |-> "shadow", planner |-> mode, stages |-> stages,
                    dry_run |-> dry_run, i |-> 1,
                    scan |-> [n \in DOMAIN node_federations |-> [fits |-> FALSE, score |-> 1]],
                    candidates |-> <<>>, best |-> "", fallbacks |-> <<>>,
                    assignments |-> <<>>, shadow_assignments |-> <<>>,
                    fallback_crossfed |-> 0, infeasible |-> FALSE]
    /\ plan' = NoPlan
    /\ UNCHANGED <<store_vars, snap, overrides_json, chaos, loops, written,
                   issued, last, thread_vars>>

\* One pass of the loop over the stages: a stage without id is passed
\* over; else the candidates are sorted, the best one and the fallbacks are
\* taken and counted, and the stage is assigned in a dry run or when the
\* store accepted the reservation.
ShadowStage(scan, accepted) ==
    /\ planning.pc = "shadow"
    /\ planning.i <= Len(planning.stages)
    /\ LET sid == planning.stages[planning.i]
           candidates == sort_by_score(shadow_candidates(scan, 1))
           best_name == candidates[1].name
           fallbacks == fallback_nodes(candidates, DEFAULT_MODES[planning.planner])
           assigned == planning.dry_run \/ accepted
       IN  planning' =
             IF sid = ""
             THEN [planning EXCEPT !.i = @ + 1, !.candidates = <<>>, !.best = "",
                                   !.fallbacks = <<>>, !.scan = scan]
             ELSE IF candidates = <<>>
             THEN [planning EXCEPT !.i = @ + 1, !.candidates = <<>>, !.best = "",
                                   !.fallbacks = <<>>, !.scan = scan,
                                   !.infeasible = TRUE]
             ELSE [planning EXCEPT
                     !.i = @ + 1, !.candidates = candidates, !.best = best_name,
                     !.fallbacks = fallbacks, !.scan = scan,
                     !.fallback_crossfed = @ + crossfed_count(best_name, fallbacks),
                     !.shadow_assignments =
                        [s \in DOMAIN @ \cup {sid} |-> IF s = sid THEN fallbacks ELSE @[s]],
                     !.assignments =
                        IF assigned
                        THEN [s \in DOMAIN @ \cup {sid} |-> IF s = sid THEN best_name ELSE @[s]]
                        ELSE @,
                     !.infeasible = @ \/ ~assigned]
    /\ UNCHANGED <<store_vars, snap, plan, overrides_json, chaos, loops, written,
                   issued, last, thread_vars>>

\* After the last stage: the metrics of the result.
ShadowEnd ==
    /\ planning.pc = "shadow"
    /\ planning.i > Len(planning.stages)
    /\ plan' = [planner |-> planning.planner, dry_run |-> planning.dry_run,
                stages |-> planning.stages,
                assignments |-> planning.assignments,
                shadow_assignments |-> planning.shadow_assignments,
                infeasible |-> planning.infeasible,
                federation_spread |->
                    federation_spread(planning.assignments, planning.stages),
                resilience_score |->
                    resilience_score(planning.shadow_assignments, planning.stages),
                cross_federation_fallback_ratio |->
                    cross_federation_fallback_ratio(planning.fallback_crossfed,
                                                    planning.stages)]
    /\ planning' = NoPlanning
    /\ UNCHANGED <<store_vars, snap, overrides_json, chaos, loops, written, issued,
                   last, thread_vars>>

NextShadow ==
    \/ \E mode \in FedModes, stages \in ShadowJobs, dry_run \in BOOLEAN :
            ShadowBegin(mode, stages, dry_run)
    \/ \E scan \in Scans, accepted \in BOOLEAN : ShadowStage(scan, accepted)
    \/ ShadowEnd

SpecShadow == Init /\ [][NextShadow]_vars

-----------------------------------------------------------------------------
(* C35 *)

\* The pass of the loop that found at least one candidate for its stage.
CandidateStep ==
    /\ planning.pc = "shadow"
    /\ planning'.pc = "shadow"
    /\ planning'.i = planning.i + 1
    /\ planning'.candidates # <<>>

\* The nodes that pass _fits at the scan of the stage, and their scores.
Fitting(scan) == {n \in DOMAIN scan : scan[n].fits}

-----------------------------------------------------------------------------
(* C40 *)

\* C40: the federation_spread, the resilience_score and the
\* cross_federation_fallback_ratio of a Federated result are each between
\* 0 and 1.
C40_MetricsWithinUnit ==
    plan.planner \in FedModes =>
        /\ plan.federation_spread \in 0..10000
        /\ plan.resilience_score \in 0..10000
        /\ plan.cross_federation_fallback_ratio \in 0..10000

-----------------------------------------------------------------------------
(* C39 *)

\* C39: after any sequence of Reserve and Release calls, with zero and
\* negative amounts among the requests, the used cpu, memory and vram of
\* every node are at least 0, so that its free capacity is at most its
\* capacity.
C39_UsedNeverNegative ==
    \A n \in DOMAIN nodes_by_name :
        /\ nodes_by_name[n].dyn.used_cpu_cores >= 0
        /\ nodes_by_name[n].dyn.used_mem_gb >= 0
        /\ nodes_by_name[n].dyn.used_gpu_vram_gb >= 0
        /\ _effective_caps(nodes_by_name[n]).free_cpu_cores
                <= nodes_by_name[n].caps.max_cpu_cores
        /\ _effective_caps(nodes_by_name[n]).free_mem_gb <= nodes_by_name[n].caps.ram_gb
        /\ _effective_caps(nodes_by_name[n]).free_gpu_vram_gb
                <= nodes_by_name[n].caps.gpu_vram_gb

-----------------------------------------------------------------------------
(* C37 *)

\* The watcher iteration that reloads a topology document it can read.
TopologyReloaded ==
    /\ last'.op = "load_topology"
    /\ last'.ok

\* A link that an override merge or an observation created: its base is
\* empty.
AdHoc(link) == DOMAIN link.base = {}

\* C37: a topology reload by the watcher leaves the live dyn of every link
\* that is in the store before and after it as it was, and every ad-hoc link
\* of the store is still in the store after it.
C37_ReloadKeepsLinkDyn ==
    [][TopologyReloaded =>
        /\ \A k \in DOMAIN links_by_key \cap DOMAIN links_by_key' :
                links_by_key'[k].dyn = links_by_key[k].dyn
        /\ \A k \in DOMAIN links_by_key :
                AdHoc(links_by_key[k]) => k \in DOMAIN links_by_key']_vars

-----------------------------------------------------------------------------
(* The chaos store rewriting overrides.json beside the watcher, with the   *)
(* file's modification time.  In this part loops holds: the watcher's      *)
(* place (watch), the st_mtime its stat returned (stat_mtime) and          *)
(* self._overrides_mtime; whether the file exists, its st_mtime, and the   *)
(* clock in units of the file system's time stamps (now); the writer's     *)
(* place, the call it is writing for, the number of writes it completed,   *)
(* the st_mtime its last completed write left, and whether a completed     *)
(* write landed on the st_mtime of the one before (collided).  The         *)
(* topology file is not touched, so the watcher never reloads it.          *)

MaxWrites == 2

MaxClock == 2

MtimeLoops ==
    [watch |-> "stat", stat_mtime |-> 0, _overrides_mtime |-> 0,
     exists |-> FALSE, st_mtime |-> 0, now |-> 1,
     writer |-> "idle", pending |-> <<>>, writes |-> 0, closed_mtime |-> 0,
     collided |-> FALSE]

\* The state after construction, with no overrides.json on disk.
MtimeInit ==
    /\ StoreInit
    /\ snap = NoSnapshot
    /\ lock = NoThread
    /\ pc = [t \in Threads |-> "idle"]
    /\ call = [t \in Threads |-> NoCall]
    /\ done = [t \in Threads |-> [calls |-> 0, overlapped |-> FALSE]]
    /\ lin = [nodes |-> _load_nodes_locked, seq |-> 1, agree |-> TRUE]
    /\ plan = NoPlan
    /\ overrides_json = EmptyOverrides
    /\ chaos = NoChaos
    /\ loops = MtimeLoops
    /\ written = <<>>
    /\ planning = NoPlanning

\* OverridesStore._write, the opening of the file: write_text truncates it,
\* which sets its modification time; until the text is written a reader
\* finds no complete document.
WriterOpen(c) ==
    /\ loops.writer = "idle"
    /\ loops.writes < MaxWrites
    /\ store_call(overrides_json, c) # overrides_json
    /\ loops' = [loops EXCEPT !.writer = "writing", !.pending = <<c>>,
                              !.exists = TRUE, !.st_mtime = loops.now]
    /\ UNCHANGED <<store_vars, snap, plan, overrides_json, chaos, written, planning,
                   issued, last, thread_vars>>

\* OverridesStore._write, the text is written and the file closed.
WriterClose ==
    /\ loops.writer = "writing"
    /\ overrides_json' = store_call(overrides_json, loops.pending[1])
    /\ loops' = [loops EXCEPT
                    !.writer = "idle", !.pending = <<>>, !.writes = @ + 1,
                    !.st_mtime = loops.now, !.closed_mtime = loops.now,
                    !.collided = @ \/ (loops.writes > 0 /\ loops.closed_mtime = loops.now)]
    /\ UNCHANGED <<store_vars, snap, plan, chaos, written, planning, issued, last,
                   thread_vars>>

\* The clock of the file system's time stamps advances.
ClockTick ==
    /\ loops.now < MaxClock
    /\ loops' = [loops EXCEPT !.now = @ + 1]
    /\ UNCHANGED <<store_vars, snap, plan, overrides_json, chaos, written, planning,
                   issued, last, thread_vars>>

\* _load_overrides_locked up to the test of the modification time: a file
\* that does not exist empties self._overrides; a file whose st_mtime is
\* not above self._overrides_mtime ends the iteration, which then waits.
WatchStat ==
    /\ loops.watch = "stat"
    /\ IF ~loops.exists
       THEN /\ _overrides' = EmptyOverrides
            /\ loops' = [loops EXCEPT !.watch = "wait", !._overrides_mtime = 0]
       ELSE /\ _overrides' = _overrides
            /\ loops' = IF loops.st_mtime <= loops._overrides_mtime
                        THEN [loops EXCEPT !.watch = "wait"]
                        ELSE [loops EXCEPT !.watch = "read",
                                           !.stat_mtime = loops.st_mtime]
    /\ UNCHANGED <<nodes_by_name, links_by_key, _res_seq, snap, plan, overrides_json,
                   chaos, written, planning, issued, last, thread_vars>>

\* _load_overrides_locked from read_text on: json.loads raises on a file
\* that is being written, which the except branch only reports; else the
\* document replaces self._overrides, self._overrides_mtime becomes the
\* st_mtime of the stat before the read, and the document is merged.
WatchRead ==
    /\ loops.watch = "read"
    /\ LET raises == loops.writer = "writing"
           r == IF raises
                THEN [overrides |-> _overrides, nodes |-> nodes_by_name,
                      links |-> links_by_key]
                ELSE _load_overrides_locked(_overrides, nodes_by_name, links_by_key,
                                            [kind |-> "doc", doc |-> overrides_json])
       IN  /\ _overrides' = r.overrides
           /\ nodes_by_name' = r.nodes
           /\ links_by_key' = r.links
           /\ loops' = [loops EXCEPT
                            !.watch = "wait",
                            !._overrides_mtime = IF raises THEN @ ELSE loops.stat_mtime]
           /\ last' = LastOp("load_overrides", "", None, ~raises, FALSE, NoFree)
    /\ UNCHANGED <<_res_seq, snap, plan, overrides_json, chaos, written, planning,
                   issued, thread_vars>>

\* self._stop_event.wait(self._watch_interval), then the next iteration.
WatchWait ==
    /\ loops.watch = "wait"
    /\ loops' = [loops EXCEPT !.watch = "stat"]
    /\ UNCHANGED <<store_vars, snap, plan, overrides_json, chaos, written, planning,
                   issued, last, thread_vars>>

NextMtime ==
    \/ \E c \in WriteCalls : WriterOpen(c)
    \/ WriterClose
    \/ ClockTick
    \/ WatchStat
    \/ WatchRead
    \/ WatchWait

SpecMtime == MtimeInit /\ [][NextMtime]_vars

\* The watcher keeps running (its loop waits watch_interval and goes on), a
\* write that began ends, and time passes.
FairMtime ==
    /\ SpecMtime
    /\ WF_vars(WatchStat)
    /\ WF_vars(WatchRead)
    /\ WF_vars(WatchWait)
    /\ WF_vars(WriterClose)
    /\ WF_vars(ClockTick)

-----------------------------------------------------------------------------
(* C38 *)

\* Every field the document sets for a node or link of the store has the
\* document's value in the live dyn.
FinalApplied ==
    \A t \in FieldsOf(overrides_json) :
        (IF t[1] = "nodes" THEN t[2] \in DOMAIN nodes_by_name
         ELSE t[2] \in DOMAIN links_by_key)
        /\ Live(t) = Lookup(overrides_json, t)[1]

\* C38: once the chaos writer has stopped changing overrides.json, and the
\* watcher keeps running, every field the final document sets for a known
\* node or link eventually has, and keeps, the document's value in the live
\* dyn of the store.
C38_FinalDocumentReachesStore == <>[]FinalApplied

====
